---- MODULE Spec2Model ----
(***************************************************************************)
(* A model of the draw-it / duku renderer's uniform and resource           *)
(* management: the ImageUniform descriptor group (pipeline/uniform.rs),    *)
(* the ResourceManager (resource/mod.rs) and the frame driver (duku.rs).   *)
(*                                                                         *)
(* Program indices are 0-based as in the Rust source; TLA+ sequences are   *)
(* 1-based, so slot i of a Vec is element i + 1 of the sequence (see At).  *)
(***************************************************************************)
EXTENDS Integers, Sequences, FiniteSets, TLC

VARIABLES
    uniform,        \* the ImageUniform struct: images, skybox, should_update
    updates,        \* the writes handed to device.update_descriptor_sets by the last operation
    resources,      \* the ResourceManager struct
    removals,       \* the indices handed to ImageUniform::remove by the last operation, in call order
    render_stage,   \* Duku::render_stage: "Before" or "During"
    calls,          \* the calls the last Duku operation made, in order
    render_unflushed, \* TRUE when the last Duku operation rendered while should_update was set
    duku,           \* the other fields of Duku: gpu_index, the frame statistics, cubemaps, models
    op,             \* name of the last operation performed
    arg,            \* argument of the last operation (0 when it has none)
    ret,            \* value returned by the last operation (0 when it returns nothing)
    panicked,       \* TRUE once an operation has panicked; the program has then ended
    issued,         \* per table, the indices its add operation has returned so far
    target,         \* the Target struct
    target_calls,   \* the number of Target operations performed, where a run is bounded by it
    device,         \* the Device: current frame, recorded commands, build configuration
    buffer,         \* a Buffer<T> or a DynamicBuffer
    groups,         \* the WorldUniform, MaterialUniform and ShadowMapUniform of a layout
    frame_calls,    \* the calls the Duku operations made since the last end_draw, in order
    heap,           \* the device's buffer allocator: live allocations and the frees made
    user_mesh       \* a Mesh the application builds and changes

uniformVars == <<uniform, updates>>
resourceVars == <<resources, removals>>
dukuVars == <<render_stage, calls, render_unflushed, duku>>
callVars == <<op, arg, ret, panicked>>
targetVars == <<target, target_calls>>
hostVars == <<frame_calls, heap, user_mesh>>
deviceVars == <<device, buffer, groups, hostVars>>
vars == <<uniformVars, resourceVars, dukuVars, callVars, issued, targetVars, deviceVars>>

\* what the ImageUniform API leaves alone
outsideUniform == <<resourceVars, dukuVars, issued, targetVars, deviceVars>>
\* what the ResourceManager API leaves alone, besides the image uniform it is handed
outsideResources == <<updates, dukuVars, issued, targetVars, deviceVars>>
\* what add_material, add_mesh and add_framebuffer leave alone
outsideAdd == <<uniform, updates, dukuVars, targetVars, deviceVars, panicked>>

----------------------------------------------------------------------------
(* Bounds of the model *)

\* image view handles offered to add / set_skybox are 1..MaxViews
MaxViews == 2
\* the ImageUniform API is driven until the Vec holds MaxSlots slots
MaxSlots == 3
\* the capacity specification tombstones at most MaxHoles slots at a time
MaxHoles == 1
\* the resource table is driven until it holds MaxResources entries
MaxResources == 3
\* the callers hold at most MaxClones handles beyond the first one of each resource
MaxClones == 1

(* Program constants *)

\* (0..100) in update_if_needed: the number of image entries of the descriptor
DescriptorImageCount == 100

----------------------------------------------------------------------------
(* Option<vk::ImageView>: None is 0, Some(v) is the non-zero handle v *)

None == 0

Some(v) == v

IsNone(x) == x = None

Views == 1..MaxViews

\* the view handle used where the handle's value plays no part: the least one
CapView == CHOOSE v \in Views : \A w \in Views : v <= w

\* slot i (0-based) of a Vec
At(s, i) == s[i + 1]

\* (index as usize) < len for an i32 index: a negative index sign-extends to a
\* usize of at least 2^64 - 2^31, above every Vec length, so the test is false
in_bounds(index, len) == index >= 0 /\ index < len

----------------------------------------------------------------------------
(* ImageUniform: src/draw-it/src/pipeline/uniform.rs *)

Filters == <<"Linear", "Nearest">>
Addresses == <<"Repeat", "Clamp">>
Mipmaps == <<"Enabled", "Disabled">>

\* the three nested loops of ImageUniform::new, in push order
SamplerCombinations ==
    [n \in 1..8 |->
        [filter |-> Filters[((n - 1) \div 4) + 1],
         address |-> Addresses[(((n - 1) \div 2) % 2) + 1],
         mipmaps |-> Mipmaps[((n - 1) % 2) + 1]]]

\* ImageUniform::new
ImageUniformNew ==
    [descriptor |-> [set |-> 2, handle |-> "image_set"],
     images |-> <<>>, skybox |-> None, should_update |-> TRUE]

\* images.iter().position(|img| img.is_none()), scanning from slot i; -1 is Option::None
RECURSIVE position_none(_, _)
position_none(images, i) ==
    IF i >= Len(images) THEN -1
    ELSE IF IsNone(At(images, i)) THEN i
    ELSE position_none(images, i + 1)

\* an add that reuses the last free slot
free_index_last(images) ==
    LET free == {i \in 0..(Len(images) - 1) : IsNone(At(images, i))}
    IN IF free = {} THEN Len(images) ELSE CHOOSE i \in free : \A j \in free : j <= i

\* the index chosen by add: the free index, or the next index
free_index(images) ==
    LET next_index == Len(images)
        pos == position_none(images, 0)
    IN IF pos = -1 THEN next_index ELSE pos

\* ImageUniform::add
add(self, image) ==
    LET next_index == Len(self.images)
        index == free_index(self.images)
        imgs == IF index = next_index
                THEN Append(self.images, Some(image))
                ELSE [self.images EXCEPT ![index + 1] = Some(image)]
    IN [self |-> [self EXCEPT !.images = imgs, !.should_update = TRUE],
        ret |-> index]

\* a remove that compacts the Vec
remove_compact(self, index) ==
    LET u == index
    IN IF ~in_bounds(index, Len(self.images))
       THEN [self |-> self, panic |-> TRUE]
       ELSE [self |-> [self EXCEPT
                          !.images = [n \in 1..(Len(self.images) - 1) |->
                                         IF n <= u THEN self.images[n] ELSE self.images[n + 1]],
                          !.should_update = TRUE],
             panic |-> FALSE]

\* ImageUniform::remove
remove(self, index) ==
    LET u == index
    IN IF ~in_bounds(index, Len(self.images))
       THEN [self |-> self, panic |-> TRUE]
       ELSE [self |-> [self EXCEPT !.images[u + 1] = None, !.should_update = TRUE],
             panic |-> FALSE]

\* ImageUniform::set_skybox
set_skybox(self, image) ==
    [self EXCEPT !.skybox = Some(image), !.should_update = TRUE]

\* an image info that only looks at the slot count, not at the slot's content
image_info_len(images, i) ==
    IF i < Len(images) /\ ~IsNone(At(images, i))
    THEN [panic |-> FALSE, image_view |-> At(images, i)]
    ELSE IF Len(images) = 0
    THEN [panic |-> TRUE, image_view |-> None]
    ELSE [panic |-> FALSE, image_view |-> At(images, 0)]

\* the closure of update_if_needed: the image of slot i, or the default image
image_info(images, i) ==
    IF i < Len(images) /\ ~IsNone(At(images, i))
    THEN [panic |-> FALSE, image_view |-> At(images, i)]
    ELSE IF Len(images) = 0 \/ IsNone(At(images, 0))
    THEN [panic |-> TRUE, image_view |-> None]
    ELSE [panic |-> FALSE, image_view |-> At(images, 0)]

\* (0..100).map(..).collect()
image_infos(images) ==
    [n \in 1..DescriptorImageCount |-> image_info(images, n - 1)]

\* the sampler infos: one per sampler combination, in order
sampler_info == [n \in 1..Len(SamplerCombinations) |-> [sampler |-> SamplerCombinations[n]]]

\* a value update_descriptor_sets can read that is the handle of no view
NotAView == MaxViews + 1

\* skybox_info is a local of the `if let Some(skybox)` block, and build() keeps
\* only a pointer to it: by the time update_descriptor_sets reads the third
\* write the block has ended and the array is dead.  What the device is
\* handed there is whatever the frame holds by then: the skybox view if the
\* memory was left alone, another view or something that is no view if not
skybox_info(self) ==
    IF IsNone(self.skybox) THEN {None} ELSE Views \cup {NotAView}

\* the writes vec built by update_if_needed, as update_descriptor_sets reads
\* it; seen is what it finds where skybox_info was
descriptor_writes(self, seen) ==
    LET infos == image_infos(self.images)
        image_write == [dst_binding |-> 0, dst_array_element |-> 0,
                        descriptor_type |-> "SAMPLED_IMAGE",
                        image_info |-> [n \in 1..Len(infos) |-> infos[n].image_view]]
        sampler_write == [dst_binding |-> 1, dst_array_element |-> 0,
                          descriptor_type |-> "SAMPLER",
                          image_info |-> sampler_info]
        skybox_write == [dst_binding |-> 2, dst_array_element |-> 0,
                         descriptor_type |-> "SAMPLED_IMAGE",
                         image_info |-> <<seen>>]
    IN IF IsNone(self.skybox)
       THEN <<image_write, sampler_write>>
       ELSE <<image_write, sampler_write, skybox_write>>

\* a flush that leaves the dirty flag set
update_if_needed_keep_dirty(self, seen) ==
    IF ~self.should_update
    THEN [self |-> self, panic |-> FALSE, updates |-> <<>>]
    ELSE IF \E i \in 0..(DescriptorImageCount - 1) : image_info(self.images, i).panic
    THEN [self |-> self, panic |-> TRUE, updates |-> <<>>]
    ELSE [self |-> self, panic |-> FALSE, updates |-> <<descriptor_writes(self, seen)>>]

\* ImageUniform::update_if_needed; seen is one of skybox_info(self)
update_if_needed(self, seen) ==
    IF ~self.should_update
    THEN [self |-> self, panic |-> FALSE, updates |-> <<>>]
    ELSE IF \E i \in 0..(DescriptorImageCount - 1) : image_info(self.images, i).panic
    THEN [self |-> self, panic |-> TRUE, updates |-> <<>>]
    ELSE [self |-> [self EXCEPT !.should_update = FALSE],
          panic |-> FALSE,
          updates |-> <<descriptor_writes(self, seen)>>]

----------------------------------------------------------------------------
(* ResourceManager: src/draw-it/src/resource/mod.rs *)

\* Storage::new and as_ref: the stored value and the count of outstanding Refs
StorageNew(value) == [value |-> value, count |-> 1]

\* Index::new and its first handle: the map entry and the count of outstanding Index handles
EntryNew(value) == [value |-> value, count |-> 1]

\* ResourceManager::new
ResourceManagerNew ==
    [textures |-> <<>>, shaders |-> <<>>, fonts |-> <<>>,
     framebuffers |-> <<>>, materials |-> <<>>, meshes |-> <<>>,
     next_index |-> 0]

\* HashMap::insert
insert(map, key, value) ==
    [k \in (DOMAIN map) \cup {key} |-> IF k = key THEN value ELSE map[k]]

\* ResourceManager::add_texture
add_texture(self, texture) ==
    [self EXCEPT !.textures = Append(self.textures, StorageNew(texture))]

\* ResourceManager::add_shader
add_shader(self, shader) ==
    [self EXCEPT !.shaders = Append(self.shaders, StorageNew(shader))]

\* ResourceManager::add_font
add_font(self, font) ==
    [self EXCEPT !.fonts = Append(self.fonts, StorageNew(font))]

\* ResourceManager::add_material
add_material(self, material) ==
    LET index == self.next_index
    IN [self |-> [self EXCEPT !.next_index = index + 1,
                              !.materials = insert(self.materials, index, EntryNew(material))],
        ret |-> index]

add_mesh_own_counter(self, mesh) ==
    LET index == Cardinality(DOMAIN self.meshes)
    IN [self |-> [self EXCEPT !.meshes = insert(self.meshes, index, EntryNew(mesh))],
        ret |-> index]

\* ResourceManager::add_mesh
add_mesh(self, mesh) ==
    LET index == self.next_index
    IN [self |-> [self EXCEPT !.next_index = index + 1,
                              !.meshes = insert(self.meshes, index, EntryNew(mesh))],
        ret |-> index]

\* ResourceManager::add_framebuffer
add_framebuffer(self, framebuffer) ==
    LET index == self.next_index
    IN [self |-> [self EXCEPT !.next_index = index + 1,
                              !.framebuffers = insert(self.framebuffers, index, EntryNew(framebuffer))],
        ret |-> index]

\* Vec::retain(|r| r.count() != 0)
RECURSIVE retain_used(_)
retain_used(storages) ==
    IF storages = <<>> THEN <<>>
    ELSE IF Head(storages).count # 0
    THEN <<Head(storages)>> \o retain_used(Tail(storages))
    ELSE retain_used(Tail(storages))

\* Vec::drain_filter(|r| r.count() == 0): what stays in the Vec, and what is yielded, in order
RECURSIVE drain_filter_unused(_)
drain_filter_unused(storages) ==
    IF storages = <<>> THEN [kept |-> <<>>, drained |-> <<>>]
    ELSE LET rest == drain_filter_unused(Tail(storages))
         IN IF Head(storages).count = 0
            THEN [kept |-> rest.kept, drained |-> <<Head(storages)>> \o rest.drained]
            ELSE [kept |-> <<Head(storages)>> \o rest.kept, drained |-> rest.drained]

\* .for_each(|r| uniform.remove(r.with(|t| t.image_index())))
RECURSIVE for_each_remove(_, _)
for_each_remove(image_uniform, drained) ==
    IF drained = <<>> THEN [self |-> image_uniform, panic |-> FALSE, removals |-> <<>>]
    ELSE LET index == Head(drained).value.image_index
             r == remove(image_uniform, index)
         IN IF r.panic
            THEN [self |-> r.self, panic |-> TRUE, removals |-> <<index>>]
            ELSE LET rest == for_each_remove(r.self, Tail(drained))
                 IN [self |-> rest.self, panic |-> rest.panic,
                     removals |-> <<index>> \o rest.removals]

\* a collection that also drops the meshes whose handles are all gone
clean_unused_meshes(self, image_uniform) ==
    LET d == drain_filter_unused(self.textures)
        u == for_each_remove(image_uniform, d.drained)
    IN [self |-> [self EXCEPT !.fonts = retain_used(self.fonts),
                              !.shaders = retain_used(self.shaders),
                              !.meshes = [k \in {i \in DOMAIN self.meshes : self.meshes[i].count # 0}
                                            |-> self.meshes[k]],
                              !.textures = d.kept],
        uniform |-> u.self, panic |-> u.panic, removals |-> u.removals]

\* a collection that drops the unused textures without releasing their image slots
clean_unused_no_release(self, image_uniform) ==
    [self |-> [self EXCEPT !.fonts = retain_used(self.fonts),
                           !.shaders = retain_used(self.shaders),
                           !.textures = retain_used(self.textures)],
     uniform |-> image_uniform, panic |-> FALSE, removals |-> <<>>]

\* a collection that releases the image slot of every texture, used or not
clean_unused_release_all(self, image_uniform) ==
    LET d == drain_filter_unused(self.textures)
        u == for_each_remove(image_uniform, self.textures)
    IN [self |-> [self EXCEPT !.fonts = retain_used(self.fonts),
                              !.shaders = retain_used(self.shaders),
                              !.textures = d.kept],
        uniform |-> u.self, panic |-> u.panic, removals |-> u.removals]

\* ResourceManager::clean_unused
clean_unused(self, image_uniform) ==
    LET d == drain_filter_unused(self.textures)
        u == for_each_remove(image_uniform, d.drained)
    IN [self |-> [self EXCEPT !.fonts = retain_used(self.fonts),
                              !.shaders = retain_used(self.shaders),
                              !.textures = d.kept],
        uniform |-> u.self, panic |-> u.panic, removals |-> u.removals]

\* Texture::new: registers the texture's view with the image uniform and keeps the slot index
TextureNew(image_uniform, view) ==
    LET r == add(image_uniform, view)
    IN [uniform |-> r.self, texture |-> [image_index |-> r.ret]]

\* Ref::clone / Index::clone: one more outstanding handle
handle_clone(entry) == [entry EXCEPT !.count = entry.count + 1]

\* Drop of a Ref / Index: one outstanding handle fewer
handle_drop(entry) == [entry EXCEPT !.count = entry.count - 1]

----------------------------------------------------------------------------
(* Target (tegne/src/renderer/target.rs): ids are names, a transform is     *)
(* reduced to its x position, bias is counted in thousandths                *)

\* the ids the Builtins struct hands to a Target
builtins ==
    [phong_shader |-> "phong_shader", wireframe_shader |-> "wireframe_shader",
     blit_shader |-> "blit_shader", font_shader |-> "font_shader",
     white_material |-> "white_material", white_texture |-> "white_texture",
     roboto_font |-> "roboto_font", cube_mesh |-> "cube_mesh",
     sphere_mesh |-> "sphere_mesh", surface_mesh |-> "surface_mesh"]

\* the font current_font resolves to: glyph metrics in units of one advance
Font == [texture |-> "roboto_texture", char_bearing |-> 0, char_advance |-> 1]

\* the size of the array Target::lights returns
LightSlots == 3

\* bias: 0.004
DefaultBias == 4

\* Light::default()
LightDefault == [coords |-> <<0, 0, 0, 0>>, color |-> <<0, 0, 0, 0>>]

\* Target::new; added is the history of add_order calls (not a field of the struct)
TargetNew ==
    [orders_by_shader |-> <<>>,
     clear |-> "grey",
     lights |-> <<>>,
     current_shader |-> builtins.phong_shader,
     current_material |-> builtins.white_material,
     current_albedo |-> builtins.white_texture,
     current_framebuffer |-> None,
     current_font |-> builtins.roboto_font,
     has_shadows |-> FALSE,
     wireframes |-> FALSE,
     sampler_nearest |-> FALSE,
     sampler_clamp |-> FALSE,
     sampler_no_mipmaps |-> FALSE,
     bias |-> DefaultBias,
     added |-> <<>>]

\* the three flags weighted the other way round
sampler_combination_reversed(self) ==
    LET index0 == 0
        index1 == IF self.sampler_nearest THEN index0 + 1 ELSE index0
        index2 == IF self.sampler_clamp THEN index1 + 2 ELSE index1
        index3 == IF self.sampler_no_mipmaps THEN index2 + 4 ELSE index2
    IN index3

\* Target::sampler_combination
sampler_combination(self) ==
    LET index0 == 0
        index1 == IF self.sampler_nearest THEN index0 + 4 ELSE index0
        index2 == IF self.sampler_clamp THEN index1 + 2 ELSE index1
        index3 == IF self.sampler_no_mipmaps THEN index2 + 1 ELSE index2
    IN index3

\* iter().position(|x| x[field] == id): 1-based place of the first match, 0 when none
RECURSIVE find(_, _, _, _)
find(buckets, field, id, n) ==
    IF n > Len(buckets) THEN 0
    ELSE IF buckets[n][field] = id THEN n
    ELSE find(buckets, field, id, n + 1)

\* an add_order that opens a new shader bucket for every order
push_grouped_always_new(orders_by_shader, shader, material, order) ==
    Append(orders_by_shader,
           [shader |-> shader,
            orders_by_material |-> <<[material |-> material, orders |-> <<order>>]>>])

push_grouped_recent_first(orders_by_shader, shader, material, order) ==
    LET s == find(orders_by_shader, "shader", shader, 1)
    IN IF s # 0
       THEN LET m == find(orders_by_shader[s].orders_by_material, "material", material, 1)
            IN IF m # 0
               THEN [orders_by_shader EXCEPT ![s].orders_by_material[m].orders = Append(@, order)]
               ELSE [orders_by_shader EXCEPT ![s].orders_by_material =
                        <<[material |-> material, orders |-> <<order>>]>> \o @]
       ELSE Append(orders_by_shader,
                   [shader |-> shader,
                    orders_by_material |-> <<[material |-> material, orders |-> <<order>>]>>])

push_grouped_first_material(orders_by_shader, shader, material, order) ==
    LET s == find(orders_by_shader, "shader", shader, 1)
    IN IF s # 0
       THEN [orders_by_shader EXCEPT ![s].orders_by_material[1].orders = Append(@, order)]
       ELSE Append(orders_by_shader,
                   [shader |-> shader,
                    orders_by_material |-> <<[material |-> material, orders |-> <<order>>]>>])

\* the first half of Target::add_order: the entry in the bucket of (shader, material)
push_grouped(orders_by_shader, shader, material, order) ==
    LET s == find(orders_by_shader, "shader", shader, 1)
    IN IF s # 0
       THEN LET m == find(orders_by_shader[s].orders_by_material, "material", material, 1)
            IN IF m # 0
               THEN [orders_by_shader EXCEPT ![s].orders_by_material[m].orders = Append(@, order)]
               ELSE [orders_by_shader EXCEPT ![s].orders_by_material =
                        Append(@, [material |-> material, orders |-> <<order>>])]
       ELSE Append(orders_by_shader,
                   [shader |-> shader,
                    orders_by_material |-> <<[material |-> material, orders |-> <<order>>]>>])

push_wireframe_replace(orders_by_shader, order) ==
    LET s == find(orders_by_shader, "shader", builtins.wireframe_shader, 1)
    IN IF s # 0
       THEN [orders_by_shader EXCEPT ![s].orders_by_material[1].orders = <<order>>]
       ELSE Append(orders_by_shader,
                   [shader |-> builtins.wireframe_shader,
                    orders_by_material |->
                        <<[material |-> builtins.white_material, orders |-> <<order>>]>>])

\* the second half of Target::add_order: the copy for the wireframe shader
push_wireframe(orders_by_shader, order) ==
    LET s == find(orders_by_shader, "shader", builtins.wireframe_shader, 1)
    IN IF s # 0
       THEN [orders_by_shader EXCEPT ![s].orders_by_material[1].orders = Append(@, order)]
       ELSE Append(orders_by_shader,
                   [shader |-> builtins.wireframe_shader,
                    orders_by_material |->
                        <<[material |-> builtins.white_material, orders |-> <<order>>]>>])

\* Target::add_order
add_order(self, order) ==
    LET material == self.current_material
        shader == self.current_shader
        grouped == push_grouped(self.orders_by_shader, shader, material, order)
    IN [self EXCEPT
            !.has_shadows = IF order.has_shadows THEN TRUE ELSE @,
            !.orders_by_shader =
                IF self.wireframes THEN push_wireframe(grouped, order) ELSE grouped,
            !.added = Append(@, [shader |-> shader, material |-> material,
                                 wireframes |-> self.wireframes, order |-> order])]

\* the Order literal of draw, draw_cube, draw_sphere and draw_surface
OrderNew(self, mesh, model, has_shadows) ==
    [mesh |-> mesh,
     albedo |-> self.current_albedo,
     framebuffer |-> self.current_framebuffer,
     model |-> model,
     has_shadows |-> has_shadows,
     sampler_index |-> sampler_combination(self)]

\* Target::draw
draw_mesh(self, mesh, transform) == add_order(self, OrderNew(self, mesh, transform, TRUE))

\* Target::draw_cube
draw_cube(self, transform) ==
    add_order(self, OrderNew(self, builtins.cube_mesh, transform, TRUE))

\* Target::draw_sphere
draw_sphere(self, transform) ==
    add_order(self, OrderNew(self, builtins.sphere_mesh, transform, TRUE))

\* Target::draw_surface: Transform::from([0.0, 0.0, 0.0])
draw_surface(self) ==
    add_order(self, OrderNew(self, builtins.surface_mesh, 0, FALSE))

\* Target::blit_framebuffer
blit_framebuffer(self, framebuffer) ==
    LET temp_shader == self.current_shader
        blit == [self EXCEPT !.current_shader = builtins.blit_shader,
                             !.current_framebuffer = Some(framebuffer)]
    IN [draw_surface(blit) EXCEPT !.current_shader = temp_shader,
                                  !.current_framebuffer = None]

\* the loop of Target::draw_text over the characters left, the pen at x
RECURSIVE draw_chars(_, _, _)
draw_chars(self, chars, x) ==
    IF chars = <<>> THEN self
    ELSE IF Head(chars) = " "
    THEN draw_chars(self, Tail(chars), x + Font.char_advance)
    ELSE draw_chars(add_order(self, [mesh |-> Head(chars),
                                     albedo |-> Font.texture,
                                     framebuffer |-> self.current_framebuffer,
                                     model |-> x,
                                     has_shadows |-> FALSE,
                                     sampler_index |-> sampler_combination(self)]),
                    Tail(chars), x + Font.char_advance)

\* Target::draw_text: chars().next().unwrap() panics on the empty text, after
\* current_shader was set to the font shader and before it is restored
draw_text(self, text, transform) ==
    LET temp_shader == self.current_shader
        font == [self EXCEPT !.current_shader = builtins.font_shader]
    IN IF text = <<>>
       THEN [self |-> font, panic |-> TRUE]
       ELSE [self |-> [draw_chars(font, text, transform - Font.char_bearing)
                           EXCEPT !.current_shader = temp_shader],
             panic |-> FALSE]

\* Target::add_directional_light: coords = direction.extend(0.0)
add_directional_light(self, direction, color) ==
    [self EXCEPT !.lights = Append(@, [coords |-> direction \o <<0>>, color |-> color])]

\* Target::set_clear
set_clear(self, clear) == [self EXCEPT !.clear = clear]

\* Target::set_material
set_material(self, material) == [self EXCEPT !.current_material = material]

\* the orders of a sub-bucket given another albedo
RECURSIVE retexture(_, _)
retexture(orders, texture) ==
    IF orders = <<>> THEN <<>>
    ELSE <<[Head(orders) EXCEPT !.albedo = texture]>> \o retexture(Tail(orders), texture)

set_albedo_texture_retroactive(self, texture) ==
    [self EXCEPT !.current_albedo = texture,
                 !.orders_by_shader =
                    [s \in 1..Len(@) |->
                        [@[s] EXCEPT !.orders_by_material =
                            [m \in 1..Len(@) |->
                                [@[m] EXCEPT !.orders = retexture(@, texture)]]]]]

\* Target::set_albedo_texture
set_albedo_texture(self, texture) == [self EXCEPT !.current_albedo = texture]

\* Target::set_shader
set_shader(self, shader) == [self EXCEPT !.current_shader = shader]

\* Target::set_framebuffer
set_framebuffer(self, framebuffer) == [self EXCEPT !.current_framebuffer = Some(framebuffer)]

\* Target::enable_wireframes
enable_wireframes(self) == [self EXCEPT !.wireframes = TRUE]

\* Target::set_wireframes
set_wireframes(self, enable) == [self EXCEPT !.wireframes = enable]

\* Target::enable_sampler_nearest
enable_sampler_nearest(self) == [self EXCEPT !.sampler_nearest = TRUE]

\* Target::enable_sampler_clamp
enable_sampler_clamp(self) == [self EXCEPT !.sampler_clamp = TRUE]

\* Target::enable_sampler_no_mipmaps
enable_sampler_no_mipmaps(self) == [self EXCEPT !.sampler_no_mipmaps = TRUE]

\* Target::set_bias
set_bias(self, amount) == [self EXCEPT !.bias = amount]

reset_keeps_samplers(self) ==
    [self EXCEPT !.current_material = builtins.white_material,
                 !.current_albedo = builtins.white_texture,
                 !.current_shader = builtins.phong_shader,
                 !.current_framebuffer = None,
                 !.wireframes = FALSE]

reset_new_frame(self) ==
    [self EXCEPT !.current_material = builtins.white_material,
                 !.current_albedo = builtins.white_texture,
                 !.current_shader = builtins.phong_shader,
                 !.current_framebuffer = None,
                 !.has_shadows = FALSE,
                 !.wireframes = FALSE,
                 !.sampler_nearest = FALSE,
                 !.sampler_clamp = FALSE,
                 !.sampler_no_mipmaps = FALSE]

\* Target::reset
reset(self) ==
    [self EXCEPT !.current_material = builtins.white_material,
                 !.current_albedo = builtins.white_texture,
                 !.current_shader = builtins.phong_shader,
                 !.current_framebuffer = None,
                 !.wireframes = FALSE,
                 !.sampler_nearest = FALSE,
                 !.sampler_clamp = FALSE,
                 !.sampler_no_mipmaps = FALSE]

\* Target::lights: slicing the array of LightSlots by a longer length panics
lights(self) ==
    IF Len(self.lights) > LightSlots
    THEN [ret |-> <<>>, panic |-> TRUE]
    ELSE [ret |-> [i \in 1..LightSlots |->
                       IF i <= Len(self.lights) THEN self.lights[i] ELSE LightDefault],
          panic |-> FALSE]

\* no index has been returned yet
IssuedNew == [materials |-> {}, meshes |-> {}, framebuffers |-> {}]

----------------------------------------------------------------------------
(* The uniform groups of pipeline/uniform.rs and their descriptors *)

\* struct Descriptor(pub u32, pub vk::DescriptorSet): the set number and the
\* descriptor set the shader layout handed out for it
Descriptor(set, handle) == [set |-> set, handle |-> handle]

\* WorldUniform::new: a one-element uniform buffer and set 0
WorldUniformNew == [buffer |-> <<>>, descriptor |-> Descriptor(0, "world_set")]

\* an update that allocates a new descriptor set for the buffer it wrote
world_uniform_update_new_set(self, data) ==
    [buffer |-> <<data>>, descriptor |-> Descriptor(0, "world_set_updated")]

\* WorldUniform::update: buffer.update_data(&[data])
world_uniform_update(self, data) == [self EXCEPT !.buffer = <<data>>]

\* MaterialUniform::new: a one-element uniform buffer and set 1
MaterialUniformNew == [buffer |-> <<>>, descriptor |-> Descriptor(1, "material_set")]

\* MaterialUniform::update: buffer.update_data(&[data])
material_uniform_update(self, data) == [self EXCEPT !.buffer = <<data>>]

\* ShadowMapUniform::new: set 3 over the views it is handed
ShadowMapUniformNew(views) == [descriptor |-> Descriptor(3, <<"shadow_map_set", views>>)]

\* Uniform::descriptor, the same body in all four implementations
descriptor(self) == self.descriptor

\* the World, Material and ShadowMap groups of one shader layout; the Image
\* group is the variable uniform
GroupsNew ==
    [world |-> WorldUniformNew,
     material |-> MaterialUniformNew,
     shadow_map |-> ShadowMapUniformNew(<<1, 2, 3, 4>>)]

----------------------------------------------------------------------------
(* Buffers: Buffer<T> of buffer/mod.rs and DynamicBuffer of                 *)
(* tegne/src/buffer/dynamic_buffer.rs.  A buffer is a record; elem is      *)
(* size_of::<T>() of the Buffer<T>, allocation numbers the (handle,        *)
(* memory) pair the device returned.                                       *)

\* Buffer::dynamic
dynamic(usage, elem, len) ==
    LET size == elem * len
    IN [kind |-> "Buffer", handle |-> 1, memory |-> 1, usage |-> usage,
        size |-> size, elem |-> elem]

\* Buffer::len
len(self) == self.size \div self.elem

\* a resize that rounds the allocation down to whole words of four bytes
resize_whole_words(self, n, debug_assertions) ==
    LET size == ((self.elem * n) \div 4) * 4
    IN IF debug_assertions /\ self.usage = "TransferSrc"
       THEN [self |-> self, panic |-> TRUE, calls |-> <<>>]
       ELSE [self |-> [self EXCEPT !.handle = @ + 1, !.memory = @ + 1, !.size = size],
             panic |-> FALSE,
             calls |-> <<[call |-> "free_buffer", handle |-> self.handle],
                         [call |-> "allocate_buffer", handle |-> self.handle + 1]>>]

\* a resize that allocates the new buffer while the old one is still held
resize_allocate_first(self, n, debug_assertions) ==
    LET size == self.elem * n
    IN IF debug_assertions /\ self.usage = "TransferSrc"
       THEN [self |-> self, panic |-> TRUE, calls |-> <<>>]
       ELSE [self |-> [self EXCEPT !.handle = @ + 1, !.memory = @ + 1, !.size = size],
             panic |-> FALSE,
             calls |-> <<[call |-> "allocate_buffer", handle |-> self.handle + 1],
                         [call |-> "free_buffer", handle |-> self.handle]>>]

\* Buffer::resize: the assertion exists in builds with debug assertions only;
\* calls lists what is asked of the device's allocator, in order: destroy
\* frees the allocation held, allocate_buffer returns the next one
resize(self, n, debug_assertions) ==
    LET size == self.elem * n
    IN IF debug_assertions /\ self.usage = "TransferSrc"
       THEN [self |-> self, panic |-> TRUE, calls |-> <<>>]
       ELSE [self |-> [self EXCEPT !.handle = @ + 1, !.memory = @ + 1, !.size = size],
             panic |-> FALSE,
             calls |-> <<[call |-> "free_buffer", handle |-> self.handle],
                         [call |-> "allocate_buffer", handle |-> self.handle + 1]>>]

\* Buffer::handle
handle(self) == self.handle

\* Buffer::destroy
destroy(self) == [self |-> self, calls |-> <<[call |-> "free_buffer", handle |-> self.handle]>>]

\* Buffer::copy_from_data: mapped lists the byte counts handed to
\* device.map_memory, overrun tells that the copy ran past the allocation; the
\* assertion exists in builds with debug assertions only
copy_from_data(self, data_len, debug_assertions) ==
    LET size == self.elem * data_len
    IN IF debug_assertions /\ ~(self.size >= size)
       THEN [panic |-> TRUE, mapped |-> <<>>, overrun |-> FALSE]
       ELSE [panic |-> FALSE, mapped |-> <<size>>, overrun |-> size > self.size]

\* Buffer::staging: a TransferSrc buffer of the data's size, filled at once
staging(elem, data_len) ==
    LET size == elem * data_len
    IN [kind |-> "Buffer", handle |-> 1, memory |-> 1, usage |-> "TransferSrc",
        size |-> size, elem |-> elem]

\* DynamicBuffer::new::<T>
DynamicBufferNew(elem, n) ==
    LET size == elem * n
    IN [kind |-> "DynamicBuffer", buffer |-> 1, memory |-> 1, size |-> size]

\* DynamicBuffer::update_data::<T>: copy::data_to_buffer with the data's size
update_data(self, elem, data_len) ==
    LET size == elem * data_len
    IN [panic |-> FALSE, mapped |-> <<size>>, overrun |-> size > self.size]

----------------------------------------------------------------------------
(* The Device as the renderer uses it *)

\* the device before the first frame: frame 0, nothing recorded; commands is
\* what the last draw of the frame recorded
DeviceNew(debug_assertions) ==
    [current_frame |-> 0,
     commands |-> <<>>,
     debug_assertions |-> debug_assertions]

----------------------------------------------------------------------------
(* ForwardRenderer of tegne/src/renderer/forward_renderer.rs.  What draw    *)
(* does on the device and on the uniforms is recorded, in order, as a      *)
(* sequence of records whose cmd field names the call.                     *)

\* const CASCADE_COUNT
CASCADE_COUNT == 3

\* the number of frames in flight, double buffering
IN_FLIGHT_FRAME_COUNT == 2

\* shadow_map_size in ForwardRenderer::new
ShadowMapSize == 2048

\* Matrix4::identity() and, as a name, the light matrix of a depth slice: the
\* texel-snapped orthographic matrix around the bounding sphere the camera
\* has between the two split fractions
Identity == <<"identity", 0>>
LightMatrix(prev_cs, cs) == <<"light_matrix", prev_cs, cs>>

\* the depth framebuffer of cascade i of a frame in flight
ShadowFramebuffer(frame, i) == [kind |-> "shadow", frame |-> frame, cascade |-> i, depth |-> 0]

\* options.framebuffer, the framebuffer the colour pass renders to, with its
\* camera.depth
Window == [kind |-> "colour", frame |-> 0, cascade |-> 0, depth |-> 100]

\* Target::cascade_splits: the far end of each cascade in hundredths of the
\* camera depth
cascade_splits(self) == <<10, 30, 100>>

\* Target::do_shadow_mapping
do_shadow_mapping(self) == self.has_shadows

\* ForwardRenderer::new: per frame in flight, CASCADE_COUNT depth framebuffers
\* and one ShadowMapUniform over their views
ForwardRendererNew ==
    LET shadow_framebuffers ==
            [frame \in 0..(IN_FLIGHT_FRAME_COUNT - 1) |->
                [i \in 0..(CASCADE_COUNT - 1) |-> ShadowFramebuffer(frame, i)]]
    IN [shadow_framebuffers |-> shadow_framebuffers,
        shadow_uniforms |->
            [frame \in 0..(IN_FLIGHT_FRAME_COUNT - 1) |->
                ShadowMapUniformNew(<<shadow_framebuffers[frame][0],
                                      shadow_framebuffers[frame][1],
                                      shadow_framebuffers[frame][2]>>)],
        shadow_shader |-> "shadow_shader",
        shadow_map_size |-> ShadowMapSize]

\* framebuffer.world_uniform(): each framebuffer owns a WorldUniform
world_uniform(framebuffer) ==
    [buffer |-> <<>>, descriptor |-> Descriptor(0, <<"world_set", framebuffer>>)]

\* Material::descriptor, the descriptor of the material's MaterialUniform
material_descriptor(material) == Descriptor(1, <<"material_set", material>>)

\* Framebuffer::descriptor, the set an order's framebuffer is sampled through
framebuffer_descriptor(framebuffer) == Descriptor(2, <<"framebuffer_set", framebuffer>>)

\* Mesh::index_count of the meshes drawn
index_count(mesh) == IF mesh = builtins.cube_mesh THEN 36 ELSE 6

\* Mesh::index_buffer of a mesh, as a resource of its own
index_buffer(mesh) == mesh \o ".index_buffer"

\* the recording of one draw: the calls so far, whether draw is still running
\* (FALSE once a ? has returned an Err) and the counters of the colour pass
RecordingNew ==
    [commands |-> <<>>, ok |-> TRUE,
     drawn_indices |-> 0, shaders_used |-> 0, materials_used |-> 0, draw_calls |-> 0]

\* one call recorded
record(rec, command) == [rec EXCEPT !.commands = Append(@, command)]

\* a ? on an Err: draw returns here
fail(rec) == [rec EXCEPT !.ok = FALSE]

\* ForwardRenderer::setup_pass
setup_pass(rec, framebuffer) ==
    record(record(rec, [cmd |-> "set_view", framebuffer |-> framebuffer]),
           [cmd |-> "set_line_width", width |-> 1])

\* ForwardRenderer::bind_world
bind_world(rec, framebuffer) ==
    record(rec, [cmd |-> "bind_descriptor",
                 descriptor |-> descriptor(world_uniform(framebuffer))])

\* ForwardRenderer::bind_shader
bind_shader(rec, shader) == record(rec, [cmd |-> "bind_shader", shader |-> shader])

\* ForwardRenderer::bind_material: material.with(|m| m.descriptor())? is an
\* Err for the broken material
bind_material(rec, material, broken) ==
    IF material = broken THEN fail(rec)
    ELSE record(rec, [cmd |-> "bind_descriptor",
                      descriptor |-> material_descriptor(material)])

\* draw_order adding to drawn_indices whatever counter the caller passes
draw_order_shared_counter(rec, order, broken, counted) ==
    LET n == index_count(order.mesh)
        framed == IF order.framebuffer # None
                  THEN record(rec, [cmd |-> "bind_descriptor",
                                    descriptor |-> framebuffer_descriptor(order.framebuffer)])
                  ELSE rec
        pushed == record(framed, [cmd |-> "push_constants",
                                  model_matrix |-> order.model,
                                  sampler_index |-> order.sampler_index,
                                  albedo_index |-> order.albedo])
        vertex_bound == record(pushed, [cmd |-> "bind_vertex_buffer", mesh |-> order.mesh])
    IN IF order.mesh = broken THEN fail(pushed)
       ELSE IF index_buffer(order.mesh) = broken THEN fail(vertex_bound)
       ELSE [record(record(vertex_bound,
                [cmd |-> "bind_index_buffer", mesh |-> order.mesh]),
                [cmd |-> "draw", mesh |-> order.mesh, model_matrix |-> order.model,
                 count |-> n])
             EXCEPT !.drawn_indices = @ + n]

\* ForwardRenderer::draw_order: vb? is an Err for the broken mesh, after the
\* framebuffer descriptor and the push constants were recorded, ib? for the
\* broken index buffer, after the vertex buffer was bound as well; counted is
\* FALSE where the caller passes &mut 0 for drawn_indices
draw_order(rec, order, broken, counted) ==
    LET n == index_count(order.mesh)
        framed == IF order.framebuffer # None
                  THEN record(rec, [cmd |-> "bind_descriptor",
                                    descriptor |-> framebuffer_descriptor(order.framebuffer)])
                  ELSE rec
        pushed == record(framed, [cmd |-> "push_constants",
                                  model_matrix |-> order.model,
                                  sampler_index |-> order.sampler_index,
                                  albedo_index |-> order.albedo])
        vertex_bound == record(pushed, [cmd |-> "bind_vertex_buffer", mesh |-> order.mesh])
    IN IF order.mesh = broken THEN fail(pushed)
       ELSE IF index_buffer(order.mesh) = broken THEN fail(vertex_bound)
       ELSE LET drawn == record(record(vertex_bound,
                            [cmd |-> "bind_index_buffer", mesh |-> order.mesh]),
                            [cmd |-> "draw", mesh |-> order.mesh, model_matrix |-> order.model,
                             count |-> n])
            IN IF counted THEN [drawn EXCEPT !.drawn_indices = @ + n] ELSE drawn

\* a shadow pass that draws every order of the bucket
RECURSIVE shadow_orders_all(_, _, _, _)
shadow_orders_all(rec, orders, k, broken) ==
    IF ~rec.ok \/ k > Len(orders) THEN rec
    ELSE shadow_orders_all(draw_order(rec, orders[k], broken, FALSE), orders, k + 1, broken)

\* the shadow pass's loop over the orders of one material bucket, from order k
RECURSIVE shadow_orders(_, _, _, _)
shadow_orders(rec, orders, k, broken) ==
    IF ~rec.ok \/ k > Len(orders) THEN rec
    ELSE shadow_orders(IF orders[k].has_shadows
                       THEN draw_order(rec, orders[k], broken, FALSE)
                       ELSE rec,
                       orders, k + 1, broken)

\* the shadow pass's loop over the material buckets of one shader bucket
RECURSIVE shadow_materials(_, _, _, _)
shadow_materials(rec, orders_by_material, m, broken) ==
    IF ~rec.ok \/ m > Len(orders_by_material) THEN rec
    ELSE LET bound == bind_material(rec, orders_by_material[m].material, broken)
         IN shadow_materials(shadow_orders(bound, orders_by_material[m].orders, 1, broken),
                             orders_by_material, m + 1, broken)

\* the shadow pass's loop over the shader buckets: no shader is bound here
RECURSIVE shadow_shaders(_, _, _, _)
shadow_shaders(rec, orders_by_shader, s, broken) ==
    IF ~rec.ok \/ s > Len(orders_by_shader) THEN rec
    ELSE shadow_shaders(shadow_materials(rec, orders_by_shader[s].orders_by_material, 1, broken),
                        orders_by_shader, s + 1, broken)

\* the body of the cascade loop for cascade i: the light matrix goes to the
\* shadow framebuffer's world uniform, then the shadow casters are rendered
shadow_cascade(self, rec, frame, i, prev_cs, cs, self_target, broken) ==
    LET shadow_framebuffer == self.shadow_framebuffers[frame][i]
    IN IF broken = "shadow_world_uniform" THEN fail(rec)
       ELSE LET updated == record(rec, [cmd |-> "world_uniform_update",
                                        framebuffer |-> shadow_framebuffer,
                                        data |-> [world_matrix |-> LightMatrix(prev_cs, cs),
                                                  cascade_splits |-> <<0, 0, 0, 0>>,
                                                  light_matrices |->
                                                      <<Identity, Identity, Identity, Identity>>,
                                                  bias |-> 0]])
                begun == record(updated, [cmd |-> "begin_render_pass",
                                          framebuffer |-> shadow_framebuffer])
                bound == bind_shader(bind_world(setup_pass(begun, shadow_framebuffer),
                                                shadow_framebuffer),
                                     self.shadow_shader)
                drawn == shadow_shaders(bound, self_target.orders_by_shader, 1, broken)
            IN IF drawn.ok THEN record(drawn, [cmd |-> "end_render_pass"]) ELSE drawn

\* a cascade loop in which every cascade starts at the camera
RECURSIVE shadow_cascades_from_camera(_, _, _, _, _, _, _)
shadow_cascades_from_camera(self, st, frame, i, self_target, framebuffer, broken) ==
    IF ~st.rec.ok \/ i >= Len(cascade_splits(self_target)) THEN st
    ELSE LET cs == At(cascade_splits(self_target), i)
             rec == shadow_cascade(self, st.rec, frame, i, 0, cs, self_target, broken)
         IN shadow_cascades_from_camera(self,
                IF rec.ok
                THEN [rec |-> rec,
                      light_matrices |-> [st.light_matrices EXCEPT ![i + 1] = LightMatrix(0, cs)],
                      cascade_splits |-> [st.cascade_splits EXCEPT ![i + 1] = framebuffer.depth * cs],
                      prev_cs |-> 0]
                ELSE [st EXCEPT !.rec = rec],
                frame, i + 1, self_target, framebuffer, broken)

\* the cascade loop from cascade i on: st carries the recording, the
\* light_matrices and cascade_splits arrays for the colour pass and prev_cs
RECURSIVE shadow_cascades(_, _, _, _, _, _, _)
shadow_cascades(self, st, frame, i, self_target, framebuffer, broken) ==
    IF ~st.rec.ok \/ i >= Len(cascade_splits(self_target)) THEN st
    ELSE LET cs == At(cascade_splits(self_target), i)
             rec == shadow_cascade(self, st.rec, frame, i, st.prev_cs, cs, self_target, broken)
         IN shadow_cascades(self,
                IF rec.ok
                THEN [rec |-> rec,
                      light_matrices |-> [st.light_matrices EXCEPT
                                             ![i + 1] = LightMatrix(st.prev_cs, cs)],
                      cascade_splits |-> [st.cascade_splits EXCEPT ![i + 1] = framebuffer.depth * cs],
                      prev_cs |-> cs]
                ELSE [st EXCEPT !.rec = rec],
                frame, i + 1, self_target, framebuffer, broken)

\* shadow mapping with the current frame's shadow map set bound throughout
shadow_mapping_own_set(self, st, frame, self_target, framebuffer, broken) ==
    LET own == record(st.rec, [cmd |-> "bind_descriptor",
                               descriptor |-> descriptor(self.shadow_uniforms[frame])])
        rendered == shadow_cascades(self, [st EXCEPT !.rec = own] @@ [prev_cs |-> 0], frame, 0,
                                    self_target, framebuffer, broken)
    IN IF rendered.rec.ok
       THEN [rendered EXCEPT !.rec = record(@, [cmd |-> "bind_descriptor",
                                 descriptor |-> descriptor(self.shadow_uniforms[frame])])]
       ELSE rendered

\* the shadow mapping block of draw: the other frame's shadow map set is bound
\* while the cascades are rendered, the current frame's afterwards
shadow_mapping(self, st, frame, self_target, framebuffer, broken) ==
    LET other == record(st.rec, [cmd |-> "bind_descriptor",
                                 descriptor |-> descriptor(self.shadow_uniforms[
                                     (frame + 1) % IN_FLIGHT_FRAME_COUNT])])
        rendered == shadow_cascades(self, [st EXCEPT !.rec = other] @@ [prev_cs |-> 0], frame, 0,
                                    self_target, framebuffer, broken)
    IN IF rendered.rec.ok
       THEN [rendered EXCEPT !.rec = record(@, [cmd |-> "bind_descriptor",
                                 descriptor |-> descriptor(self.shadow_uniforms[frame])])]
       ELSE rendered

\* the colour pass's loop over the orders of one material bucket, from order k
RECURSIVE colour_orders(_, _, _, _)
colour_orders(rec, orders, k, broken) ==
    IF ~rec.ok \/ k > Len(orders) THEN rec
    ELSE LET drawn == draw_order(rec, orders[k], broken, TRUE)
         IN colour_orders(IF drawn.ok THEN [drawn EXCEPT !.draw_calls = @ + 1] ELSE drawn,
                          orders, k + 1, broken)

\* the colour pass's loop over the material buckets of one shader bucket
RECURSIVE colour_materials(_, _, _, _)
colour_materials(rec, orders_by_material, m, broken) ==
    IF ~rec.ok \/ m > Len(orders_by_material) THEN rec
    ELSE LET bound == bind_material(rec, orders_by_material[m].material, broken)
         IN colour_materials(
                IF bound.ok
                THEN colour_orders([bound EXCEPT !.materials_used = @ + 1],
                                   orders_by_material[m].orders, 1, broken)
                ELSE bound,
                orders_by_material, m + 1, broken)

\* a colour pass that binds the bucket's shader after the bucket was drawn
RECURSIVE colour_shaders_bind_late(_, _, _, _)
colour_shaders_bind_late(rec, orders_by_shader, s, broken) ==
    IF ~rec.ok \/ s > Len(orders_by_shader) THEN rec
    ELSE LET drawn == colour_materials([rec EXCEPT !.shaders_used = @ + 1],
                                       orders_by_shader[s].orders_by_material, 1, broken)
         IN colour_shaders_bind_late(
                IF drawn.ok THEN bind_shader(drawn, orders_by_shader[s].shader) ELSE drawn,
                orders_by_shader, s + 1, broken)

\* the colour pass's loop over the shader buckets
RECURSIVE colour_shaders(_, _, _, _)
colour_shaders(rec, orders_by_shader, s, broken) ==
    IF ~rec.ok \/ s > Len(orders_by_shader) THEN rec
    ELSE LET bound == bind_shader(rec, orders_by_shader[s].shader)
         IN colour_shaders(colour_materials([bound EXCEPT !.shaders_used = @ + 1],
                                            orders_by_shader[s].orders_by_material, 1, broken),
                           orders_by_shader, s + 1, broken)

\* the normal render of draw, after the shadow mapping block
colour_pass(st, self_target, framebuffer, broken) ==
    LET other_lights == lights(self_target)
    IN IF other_lights.panic
       THEN [commands |-> st.rec.commands, ret |-> [ok |-> FALSE], panic |-> TRUE]
       ELSE IF broken = "world_uniform"
       THEN [commands |-> st.rec.commands, ret |-> [ok |-> FALSE], panic |-> FALSE]
       ELSE LET updated == record(st.rec, [cmd |-> "world_uniform_update",
                                           framebuffer |-> framebuffer,
                                           data |-> [world_matrix |-> <<"camera", 0>>,
                                                     cascade_splits |-> st.cascade_splits,
                                                     light_matrices |-> st.light_matrices,
                                                     bias |-> self_target.bias]])
                begun == record(updated, [cmd |-> "begin_render_pass",
                                          framebuffer |-> framebuffer])
                bound == bind_world(setup_pass(begun, framebuffer), framebuffer)
                drawn == colour_shaders(bound, self_target.orders_by_shader, 1, broken)
            IN IF ~drawn.ok
               THEN [commands |-> drawn.commands, ret |-> [ok |-> FALSE], panic |-> FALSE]
               ELSE [commands |-> Append(drawn.commands, [cmd |-> "end_render_pass"]),
                     ret |-> [ok |-> TRUE,
                              drawn_triangles |-> drawn.drawn_indices \div 3,
                              drawn_indices |-> drawn.drawn_indices,
                              shaders_used |-> drawn.shaders_used,
                              materials_used |-> drawn.materials_used,
                              draw_calls |-> drawn.draw_calls],
                     panic |-> FALSE]

\* a draw that renders the shadow cascades whatever the Target requests
forward_renderer_draw_always_shadows(self, frame, self_target, framebuffer, broken) ==
    LET st0 == [rec |-> RecordingNew,
                light_matrices |-> <<Identity, Identity, Identity, Identity>>,
                cascade_splits |-> <<0, 0, 0, 0>>]
        st1 == shadow_mapping(self, st0, frame, self_target, framebuffer, broken)
    IN IF ~st1.rec.ok
       THEN [commands |-> st1.rec.commands, ret |-> [ok |-> FALSE], panic |-> FALSE]
       ELSE colour_pass(st1, self_target, framebuffer, broken)

\* ForwardRenderer::draw in frame device.current_frame(); broken names the
\* one resource, if any, whose use returns an Err
forward_renderer_draw(self, frame, self_target, framebuffer, broken) ==
    LET st0 == [rec |-> RecordingNew,
                light_matrices |-> <<Identity, Identity, Identity, Identity>>,
                cascade_splits |-> <<0, 0, 0, 0>>]
        st1 == IF do_shadow_mapping(self_target)
               THEN shadow_mapping(self, st0, frame, self_target, framebuffer, broken)
               ELSE st0
    IN IF ~st1.rec.ok
       THEN [commands |-> st1.rec.commands, ret |-> [ok |-> FALSE], panic |-> FALSE]
       ELSE colour_pass(st1, self_target, framebuffer, broken)

\* Device::next_frame: the frames in flight are used in turn, the recording
\* starts anew
next_frame(self) ==
    [self EXCEPT !.current_frame = (@ + 1) % IN_FLIGHT_FRAME_COUNT,
                 !.commands = <<>>]

----------------------------------------------------------------------------
(* The device's buffer allocator as Buffer uses it: allocate_buffer hands   *)
(* out an allocation never handed out before, free_buffer releases one.     *)
(* live holds the allocations not yet freed, freed lists the frees in       *)
(* order, calls lists both in order.                                        *)

HeapNew == [live |-> {}, freed |-> <<>>, calls |-> <<>>]

\* device.allocate_buffer
allocate_buffer(self, allocation) ==
    [self EXCEPT !.live = @ \cup {allocation},
                 !.calls = Append(@, [call |-> "allocate_buffer", handle |-> allocation])]

\* device.free_buffer
free_buffer(self, allocation) ==
    [self EXCEPT !.live = @ \ {allocation},
                 !.freed = Append(@, allocation),
                 !.calls = Append(@, [call |-> "free_buffer", handle |-> allocation])]

\* the allocator after the calls a Buffer method made on it
RECURSIVE served(_, _)
served(self, made) ==
    IF made = <<>> THEN self
    ELSE served(IF Head(made).call = "allocate_buffer"
                THEN allocate_buffer(self, Head(made).handle)
                ELSE free_buffer(self, Head(made).handle),
                Tail(made))

----------------------------------------------------------------------------
(* f32 arithmetic.  A finite f32 is sign * m * 2^e with the sign bit s, an   *)
(* odd mantissa m below 2^24 and the exponent e of its last bit (zero is    *)
(* m = 0, e = 0, of either sign); infinities and NaN are values of their    *)
(* own kind.  Every operation computes the exact result and rounds it to    *)
(* 24 significant bits, ties to even, as IEEE 754 arithmetic does; results  *)
(* from 2^128 on are infinite and results below 2^-126 lose precision down  *)
(* to the last bit 2^-149.  An operation takes its operands by value: it   *)
(* binds them, so that each is computed once however often it is read.      *)

\* the significant bits of an f32
MantissaBits == 24
\* the exponent of the last bit of the smallest subnormal
MinExponent == 0 - 149
\* the exponent of the first bit of the largest finite value
MaxExponent == 127

RECURSIVE pow2(_)
pow2(n) == IF n = 0 THEN 1 ELSE 2 * pow2(n - 1)

\* the number of bits of a natural number
RECURSIVE bits(_)
bits(n) == IF n = 0 THEN 0 ELSE 1 + bits(n \div 2)

abs(n) == IF n < 0 THEN 0 - n ELSE n

\* the element of a set of one element
only(S) == CHOOSE v \in S : TRUE

Zero(s) == [k |-> "finite", s |-> s, m |-> 0, e |-> 0]
Infinity(s) == [k |-> "inf", s |-> s, m |-> 0, e |-> 0]
NaN == [k |-> "nan", s |-> 0, m |-> 0, e |-> 0]

\* m * 2^e of sign s, m > 0, with the trailing zero bits of m moved to e
RECURSIVE finite(_, _, _)
finite(s, m, e) ==
    IF m % 2 = 0 THEN finite(s, m \div 2, e + 1)
    ELSE [k |-> "finite", s |-> s, m |-> m, e |-> e]

\* the f32 nearest to (m + f) * 2^e of sign s, where m < 2^30 and f is a
\* fraction in [0, 1) that is not zero exactly if sticky
nearest_f32(s, m, sticky, e) ==
    LET wide == bits(m) - MantissaBits
        drop == IF MinExponent - e > wide THEN MinExponent - e ELSE wide
    IN IF m = 0 THEN Zero(s)
       ELSE IF drop <= 0
       THEN IF e + bits(m) - 1 > MaxExponent THEN Infinity(s) ELSE finite(s, m, e)
       ELSE IF drop > bits(m) THEN Zero(s)
       ELSE LET q == m \div pow2(drop)
                r == m % pow2(drop)
                half == pow2(drop - 1)
                up == r > half \/ (r = half /\ (sticky \/ q % 2 = 1))
                n == IF up THEN q + 1 ELSE q
            IN IF n = 0 THEN Zero(s)
               ELSE IF e + drop + bits(n) - 1 > MaxExponent THEN Infinity(s)
               ELSE finite(s, n, e + drop)

rounded(s, m, sticky, e) ==
    only({nearest_f32(s, n, t, d) : n \in {m}, t \in {sticky}, d \in {e}})

\* an integer as f32
as_f32(n) == only({rounded(IF i < 0 THEN 1 ELSE 0, abs(i), FALSE, 0) : i \in {n}})

\* the signed mantissa of a finite f32
signed(x) == IF x.s = 1 THEN 0 - x.m ELSE x.m

is_infinite(x) == x.k = "inf"

\* -x
negated(x) == IF x.k = "nan" THEN x ELSE [x EXCEPT !.s = 1 - @]

fneg(a) == only({negated(x) : x \in {a}})

\* the sum of two finite f32 that are not zero, high the one of the larger
\* exponent: exact when it fits in 30 bits, otherwise high is raised to 30
\* bits and low is cut at the last of them, what is cut off being sticky
fadd_finite(high, low) ==
    LET d == high.e - low.e
        raise == 30 - bits(high.m)
        cut == d - raise
        exact == signed(high) * pow2(d) + signed(low)
        kept == IF cut > MantissaBits THEN (IF low.s = 1 THEN 0 - 1 ELSE 0)
                ELSE signed(low) \div pow2(cut)
        sticky == cut > MantissaBits \/ signed(low) % pow2(cut) # 0
        sum == signed(high) * pow2(raise) + kept
    IN IF bits(high.m) + d <= 29
       THEN IF exact = 0 THEN Zero(0)
            ELSE rounded(IF exact < 0 THEN 1 ELSE 0, abs(exact), FALSE, low.e)
       ELSE IF sum >= 0 THEN rounded(0, sum, sticky, high.e - raise)
       ELSE rounded(1, IF sticky THEN 0 - sum - 1 ELSE 0 - sum, sticky, high.e - raise)

\* x + y
sum_of(x, y) ==
    IF x.k = "nan" \/ y.k = "nan" THEN NaN
    ELSE IF x.k = "inf" THEN (IF y.k = "inf" /\ y.s # x.s THEN NaN ELSE x)
    ELSE IF y.k = "inf" THEN y
    ELSE IF x.m = 0 /\ y.m = 0 THEN Zero(IF x.s = y.s THEN x.s ELSE 0)
    ELSE IF x.m = 0 THEN y
    ELSE IF y.m = 0 THEN x
    ELSE IF x.e >= y.e THEN fadd_finite(x, y) ELSE fadd_finite(y, x)

fadd(a, b) == only({sum_of(x, y) : x \in {a}, y \in {b}})

\* x - y
fsub(x, y) == fadd(x, fneg(y))

\* the sign of a product or quotient
sign_of(x, y) == IF x.s = y.s THEN 0 ELSE 1

\* the product a * b of two mantissas that takes more than 30 bits, computed
\* in halves of 12 bits and cut to 30 bits: [m, sticky, e]
wide_product(a, b) ==
    LET half == pow2(12)
        low == (a % half) * (b % half)
        middle == (a \div half) * (b % half) + (a % half) * (b \div half)
        below == (middle % half) * half + low
        last == below % pow2(24)
        high == (a \div half) * (b \div half) + middle \div half + below \div pow2(24)
        taken == 30 - bits(high)
    IN [m |-> high * pow2(taken) + last \div pow2(24 - taken),
        sticky |-> last % pow2(24 - taken) # 0,
        e |-> 24 - taken]

\* x * y
product_of(x, y) ==
    IF x.k = "nan" \/ y.k = "nan" THEN NaN
    ELSE IF x.k = "inf" \/ y.k = "inf"
    THEN IF (x.k = "finite" /\ x.m = 0) \/ (y.k = "finite" /\ y.m = 0) THEN NaN
         ELSE Infinity(sign_of(x, y))
    ELSE IF x.m = 0 \/ y.m = 0 THEN Zero(sign_of(x, y))
    ELSE IF bits(x.m) + bits(y.m) <= 30
    THEN rounded(sign_of(x, y), x.m * y.m, FALSE, x.e + y.e)
    ELSE only({rounded(sign_of(x, y), p.m, p.sticky, x.e + y.e + p.e) :
                  p \in {wide_product(x.m, y.m)}})

fmul(a, b) == only({product_of(x, y) : x \in {a}, y \in {b}})

\* the quotient of two mantissas, bit by bit until it has 27 bits or the
\* division comes out even: q is the quotient of a * 2^n, r the remainder
RECURSIVE long_division(_, _, _, _)
long_division(q, r, b, n) ==
    IF r = 0 \/ q >= pow2(26) THEN [q |-> q, sticky |-> r # 0, n |-> n]
    ELSE IF 2 * r >= b THEN long_division(2 * q + 1, 2 * r - b, b, n + 1)
    ELSE long_division(2 * q, 2 * r, b, n + 1)

\* x / y
quotient_of(x, y) ==
    IF x.k = "nan" \/ y.k = "nan" THEN NaN
    ELSE IF x.k = "inf" THEN (IF y.k = "inf" THEN NaN ELSE Infinity(sign_of(x, y)))
    ELSE IF y.k = "inf" THEN Zero(sign_of(x, y))
    ELSE IF y.m = 0 THEN (IF x.m = 0 THEN NaN ELSE Infinity(sign_of(x, y)))
    ELSE IF x.m = 0 THEN Zero(sign_of(x, y))
    ELSE only({rounded(sign_of(x, y), d.q, d.sticky, x.e - y.e - d.n) :
                  d \in {long_division(x.m \div y.m, x.m % y.m, y.m, 0)}})

fdiv(a, b) == only({quotient_of(x, y) : x \in {a}, y \in {b}})

\* the integer square root of a natural number below 2^25
RECURSIVE isqrt(_)
isqrt(n) ==
    IF n < 2 THEN n
    ELSE only({IF (r + 1) * (r + 1) <= n THEN r + 1 ELSE r : r \in {2 * isqrt(n \div 4)}})

\* the square root continued bit by bit until it has 27 bits or comes out
\* even: root is the root of the mantissa times 4^n, rest what remains
RECURSIVE root_digits(_, _, _)
root_digits(root, rest, n) ==
    IF rest = 0 \/ root >= pow2(26) THEN [root |-> root, sticky |-> rest # 0, n |-> n]
    ELSE IF 4 * rest >= 4 * root + 1
    THEN root_digits(2 * root + 1, 4 * rest - (4 * root + 1), n + 1)
    ELSE root_digits(2 * root, 4 * rest, n + 1)

\* f32::sqrt
root_of(x) ==
    IF x.k = "nan" THEN NaN
    ELSE IF x.k = "finite" /\ x.m = 0 THEN x
    ELSE IF x.s = 1 THEN NaN
    ELSE IF x.k = "inf" THEN x
    ELSE LET m == IF x.e % 2 = 0 THEN x.m ELSE 2 * x.m
             e == IF x.e % 2 = 0 THEN x.e ELSE x.e - 1
         IN only({rounded(0, d.root, d.sticky, (e \div 2) - d.n) :
                     d \in {only({root_digits(i, m - i * i, 0) : i \in {isqrt(m)}})}})

fsqrt(a) == only({root_of(x) : x \in {a}})

\* f32::ceil
ceil_of(x) ==
    IF x.k # "finite" \/ x.e >= 0 THEN x
    ELSE IF 0 - x.e >= MantissaBits THEN (IF x.s = 1 THEN Zero(1) ELSE as_f32(1))
    ELSE LET whole == 0 - ((0 - signed(x)) \div pow2(0 - x.e))
         IN IF whole = 0 THEN Zero(x.s) ELSE as_f32(whole)

fceil(a) == only({ceil_of(x) : x \in {a}})

\* a u32, which can pass the largest integer held here, as its two 16-bit
\* halves: the value is high * 2^16 + low
u32(high, low) == [high |-> high, low |-> low]

\* `as u32` of an f32: towards zero; NaN and what is negative are 0, and
\* what is above u32::MAX, infinity included, is u32::MAX
truncated(x) ==
    IF x.k = "nan" \/ x.s = 1 THEN u32(0, 0)
    ELSE IF x.k = "inf" \/ x.e + bits(x.m) > 32 THEN u32(pow2(16) - 1, pow2(16) - 1)
    ELSE IF x.e >= 16 THEN u32(x.m * pow2(x.e - 16), 0)
    ELSE IF x.e >= 0
    THEN u32(x.m \div pow2(16 - x.e), (x.m % pow2(16 - x.e)) * pow2(x.e))
    ELSE IF 0 - x.e >= MantissaBits THEN u32(0, 0)
    ELSE u32((x.m \div pow2(0 - x.e)) \div pow2(16), (x.m \div pow2(0 - x.e)) % pow2(16))

as_u32(a) == only({truncated(x) : x \in {a}})

\* the f32 of the literal n / d
f32(n, d) == fdiv(as_f32(n), as_f32(d))

----------------------------------------------------------------------------
(* Vec2 (math/vec2.rs) and Vector3 (math/vector_3.rs) over the f32 above    *)

\* Vec2::new and Vector3::new
Vec2New(x, y) == [x |-> x, y |-> y]
Vector3New(x, y, z) == [x |-> x, y |-> y, z |-> z]

\* a difference taken the other way round
vec2_sub_reversed(a, b) ==
    only({Vec2New(fsub(rhs.x, self.x), fsub(rhs.y, self.y)) :
          self \in {a}, rhs \in {b}})

\* impl Neg for Vec2
vec2_neg(a) ==
    only({Vec2New(fneg(self.x), fneg(self.y)) : self \in {a}})

\* impl Add for Vec2
vec2_add(a, b) ==
    only({Vec2New(fadd(self.x, rhs.x), fadd(self.y, rhs.y)) :
          self \in {a}, rhs \in {b}})

\* impl Sub for Vec2
vec2_sub(a, b) ==
    only({Vec2New(fsub(self.x, rhs.x), fsub(self.y, rhs.y)) :
          self \in {a}, rhs \in {b}})

\* impl Mul<f32> for Vec2
vec2_mul(a, b) ==
    only({Vec2New(fmul(self.x, rhs), fmul(self.y, rhs)) :
          self \in {a}, rhs \in {b}})

\* impl Div<f32> for Vec2
vec2_div(a, b) ==
    only({Vec2New(fdiv(self.x, rhs), fdiv(self.y, rhs)) :
          self \in {a}, rhs \in {b}})

\* impl AddAssign for Vec2: *self = *self + rhs
vec2_add_assign(self, rhs) == vec2_add(self, rhs)

\* impl SubAssign for Vec2: *self = *self - rhs
vec2_sub_assign(self, rhs) == vec2_sub(self, rhs)

\* impl MulAssign<f32> for Vec2: *self = *self * rhs
vec2_mul_assign(self, rhs) == vec2_mul(self, rhs)

\* impl DivAssign<f32> for Vec2: *self = *self / rhs
vec2_div_assign(self, rhs) == vec2_div(self, rhs)

\* the operator of Vec2 of a name applied: the result, for the compound
\* assignments the value of self afterwards
vec2_apply(name, self, rhs) ==
    CASE name = "neg" -> vec2_neg(self)
      [] name = "add" -> vec2_add(self, rhs)
      [] name = "sub" -> vec2_sub(self, rhs)
      [] name = "mul" -> vec2_mul(self, rhs)
      [] name = "div" -> vec2_div(self, rhs)
      [] name = "add_assign" -> vec2_add_assign(self, rhs)
      [] name = "sub_assign" -> vec2_sub_assign(self, rhs)
      [] name = "mul_assign" -> vec2_mul_assign(self, rhs)
      [] name = "div_assign" -> vec2_div_assign(self, rhs)

\* a product that leaves z unscaled
vector3_mul_flat(a, b) ==
    only({Vector3New(fmul(self.x, rhs), fmul(self.y, rhs), self.z) :
          self \in {a}, rhs \in {b}})

\* impl Neg for Vector3
vector3_neg(a) ==
    only({Vector3New(fneg(self.x), fneg(self.y), fneg(self.z)) : self \in {a}})

\* impl Add for Vector3
vector3_add(a, b) ==
    only({Vector3New(fadd(self.x, rhs.x), fadd(self.y, rhs.y), fadd(self.z, rhs.z)) :
          self \in {a}, rhs \in {b}})

\* impl Sub for Vector3
vector3_sub(a, b) ==
    only({Vector3New(fsub(self.x, rhs.x), fsub(self.y, rhs.y), fsub(self.z, rhs.z)) :
          self \in {a}, rhs \in {b}})

\* impl Mul<f32> for Vector3
vector3_mul(a, b) ==
    only({Vector3New(fmul(self.x, rhs), fmul(self.y, rhs), fmul(self.z, rhs)) :
          self \in {a}, rhs \in {b}})

\* impl Div<f32> for Vector3
vector3_div(a, b) ==
    only({Vector3New(fdiv(self.x, rhs), fdiv(self.y, rhs), fdiv(self.z, rhs)) :
          self \in {a}, rhs \in {b}})

\* impl AddAssign for Vector3: *self = *self + rhs
vector3_add_assign(self, rhs) == vector3_add(self, rhs)

\* impl SubAssign for Vector3: *self = *self - rhs
vector3_sub_assign(self, rhs) == vector3_sub(self, rhs)

\* impl MulAssign<f32> for Vector3: *self = *self * rhs
vector3_mul_assign(self, rhs) == vector3_mul(self, rhs)

\* impl DivAssign<f32> for Vector3: *self = *self / rhs
vector3_div_assign(self, rhs) == vector3_div(self, rhs)

\* the operator of Vector3 of a name applied: the result, for the compound
\* assignments the value of self afterwards
vector3_apply(name, self, rhs) ==
    CASE name = "neg" -> vector3_neg(self)
      [] name = "add" -> vector3_add(self, rhs)
      [] name = "sub" -> vector3_sub(self, rhs)
      [] name = "mul" -> vector3_mul(self, rhs)
      [] name = "div" -> vector3_div(self, rhs)
      [] name = "add_assign" -> vector3_add_assign(self, rhs)
      [] name = "sub_assign" -> vector3_sub_assign(self, rhs)
      [] name = "mul_assign" -> vector3_mul_assign(self, rhs)
      [] name = "div_assign" -> vector3_div_assign(self, rhs)

\* Vector3::ZERO, Vector2::ZERO and the values of Default
Vector3ZERO == Vector3New(Zero(0), Zero(0), Zero(0))
Vector2ZERO == Vec2New(Zero(0), Zero(0))

\* Vector3::dot
vector3_dot(a, b) ==
    only({fadd(fadd(fmul(self.x, o.x), fmul(self.y, o.y)), fmul(self.z, o.z)) :
          self \in {a}, o \in {b}})

\* Vector3::cross
vector3_cross(a, b) ==
    only({Vector3New(fsub(fmul(self.y, o.z), fmul(self.z, o.y)),
                     fsub(fmul(self.z, o.x), fmul(self.x, o.z)),
                     fsub(fmul(self.x, o.y), fmul(self.y, o.x))) :
          self \in {a}, o \in {b}})

\* Vector3::sqr_length
vector3_sqr_length(a) == only({vector3_dot(self, self) : self \in {a}})

\* Vector3::length
vector3_length(self) == fsqrt(vector3_sqr_length(self))

\* Vector3::unit
vector3_unit(a) ==
    only({vector3_mul(self, IF is_infinite(scale) THEN Zero(0) ELSE scale) :
          self \in {a}, scale \in {fdiv(as_f32(1), vector3_length(a))}})

----------------------------------------------------------------------------
(* Mesh of mesh/mod.rs.  A vertex attribute is a sequence: of vectors for   *)
(* the positions, normals and uvs; what an element of the others is does    *)
(* not matter to the upload, and 0 stands for Color::WHITE, Vector4::ZERO   *)
(* and the texture 0.                                                       *)

\* size_of::<Vertex>(): two Vector3, one Vector2, three Vector4 and one u32
VertexSize == 84
\* size_of::<u16>()
IndexSize == 2

\* Mesh::new
MeshNew ==
    [vertices |-> <<Vector3ZERO>>, uvs |-> <<Vector2ZERO>>, normals |-> <<Vector3ZERO>>,
     colors |-> <<0>>,
     extra_data_1 |-> <<0>>, extra_data_2 |-> <<0>>, textures |-> <<0>>,
     indices |-> <<0, 0, 0>>,
     should_update |-> TRUE,
     index_count |-> 3,
     vertex_buffer |-> dynamic("Vertex", VertexSize, 1),
     index_buffer |-> dynamic("Index", IndexSize, 3)]

\* the loop "for tri in triangles.chunks(3)" of Mesh::new of tegne and of
\* Mesh::calculate_normals from the chunk at k on: tri[1] or tri[2] of a short
\* last chunk and vertices[a] of an index past the vertices are out of bounds
\* and panic, with the normals as the chunks before have left them
RECURSIVE smooth_normals(_, _, _, _)
smooth_normals(normals, vertices, triangles, k) ==
    IF k > Len(triangles) THEN [normals |-> normals, panic |-> FALSE]
    ELSE IF k + 2 > Len(triangles) THEN [normals |-> normals, panic |-> TRUE]
    ELSE LET a == triangles[k]
             b == triangles[k + 1]
             c == triangles[k + 2]
         IN IF a >= Len(vertices) \/ b >= Len(vertices) \/ c >= Len(vertices)
            THEN [normals |-> normals, panic |-> TRUE]
            ELSE LET normal == vector3_cross(vector3_sub(At(vertices, b), At(vertices, a)),
                                             vector3_sub(At(vertices, c), At(vertices, a)))
                     na == [normals EXCEPT ![a + 1] = vector3_add(@, normal)]
                     nb == [na EXCEPT ![b + 1] = vector3_add(@, normal)]
                     nc == [nb EXCEPT ![c + 1] = vector3_add(@, normal)]
                 IN only({smooth_normals(added, vertices, triangles, k + 3) : added \in {nc}})

\* Mesh::calculate_normals: the normals are replaced by one zero vector for
\* each vertex; only if the indices come in threes are the normals of the
\* triangles added up at their corners and scaled to unit length, and the
\* mesh marked for an update
mesh_calculate_normals(self) ==
    LET zeroed == [n \in 1..Len(self.vertices) |-> Vector3ZERO]
    IN IF Len(self.indices) % 3 # 0
       THEN [self |-> [self EXCEPT !.normals = zeroed], panic |-> FALSE]
       ELSE only({IF summed.panic
                  THEN [self |-> [self EXCEPT !.normals = summed.normals], panic |-> TRUE]
                  ELSE [self |-> [self EXCEPT !.normals = [n \in DOMAIN summed.normals |->
                                                             vector3_unit(summed.normals[n])],
                                              !.should_update = TRUE],
                        panic |-> FALSE] :
                  summed \in {smooth_normals(zeroed, self.vertices, self.indices, 1)}})

\* Mesh::set_vertices
mesh_set_vertices(self, vertices) ==
    [self EXCEPT !.vertices = vertices, !.should_update = TRUE]

\* Mesh::set_normals
mesh_set_normals(self, normals) ==
    [self EXCEPT !.normals = normals, !.should_update = TRUE]

\* Mesh::set_colors
mesh_set_colors(self, colors) ==
    [self EXCEPT !.colors = colors, !.should_update = TRUE]

\* Mesh::set_uvs
mesh_set_uvs(self, uvs) ==
    [self EXCEPT !.uvs = uvs, !.should_update = TRUE]

\* Mesh::set_indices
mesh_set_indices(self, indices) ==
    [self EXCEPT !.indices = indices, !.should_update = TRUE]

\* Mesh::set_extra_data_1
mesh_set_extra_data_1(self, data) ==
    [self EXCEPT !.extra_data_1 = data, !.should_update = TRUE]

\* Mesh::set_extra_data_2
mesh_set_extra_data_2(self, data) ==
    [self EXCEPT !.extra_data_2 = data, !.should_update = TRUE]

\* Mesh::set_textures
mesh_set_textures(self, textures) ==
    [self EXCEPT !.textures = textures, !.should_update = TRUE]

\* iter().chain(iter::repeat(default)) read at position n
chained(attribute, n, default) == IF n <= Len(attribute) THEN attribute[n] ELSE default

\* the Vec<Vertex> collected in update_if_needed: one Vertex per position, the
\* other attributes zipped to it and continued with their defaults
zipped(self) ==
    [n \in 1..Len(self.vertices) |->
        [in_local_position |-> self.vertices[n],
         in_normal |-> chained(self.normals, n, Vector3ZERO),
         in_uv |-> chained(self.uvs, n, Vector2ZERO),
         in_color |-> chained(self.colors, n, 0),
         in_texture |-> chained(self.textures, n, 0),
         in_extra_data_1 |-> chained(self.extra_data_1, n, 0),
         in_extra_data_2 |-> chained(self.extra_data_2, n, 0)]]

\* a resize to the data's length whenever the lengths differ
resized_if_different(b, n, debug_assertions) ==
    IF n # len(b)
    THEN [resize(b, n, debug_assertions) EXCEPT
              !.calls = <<[call |-> "resize", usage |-> b.usage, len |-> n]>>]
    ELSE [self |-> b, panic |-> FALSE, calls |-> <<>>]

\* the buffer after "if n > buffer.len() { buffer.resize(device, n) }"
resized_if_needed(b, n, debug_assertions) ==
    IF n > len(b)
    THEN [resize(b, n, debug_assertions) EXCEPT
              !.calls = <<[call |-> "resize", usage |-> b.usage, len |-> n]>>]
    ELSE [self |-> b, panic |-> FALSE, calls |-> <<>>]

\* Mesh::update_if_needed: calls lists the resizes and copies made, in order;
\* a failed assertion of resize or copy_from_data ends it in a panic
mesh_update_if_needed(self, debug_assertions) ==
    IF ~self.should_update
    THEN [self |-> self, panic |-> FALSE, calls |-> <<>>]
    ELSE
    LET vertices == zipped(self)
        vb == resized_if_needed(self.vertex_buffer, Len(vertices), debug_assertions)
        ib == resized_if_needed(self.index_buffer, Len(self.indices), debug_assertions)
        vcopy == copy_from_data(vb.self, Len(vertices), debug_assertions)
        icopy == copy_from_data(ib.self, Len(self.indices), debug_assertions)
        vcall == [call |-> "copy_from_data", usage |-> vb.self.usage,
                  len |-> Len(vertices), overrun |-> vcopy.overrun]
        icall == [call |-> "copy_from_data", usage |-> ib.self.usage,
                  len |-> Len(self.indices), overrun |-> icopy.overrun]
        sized == [self EXCEPT !.vertex_buffer = vb.self, !.index_buffer = ib.self]
    IN IF vb.panic THEN [self |-> self, panic |-> TRUE, calls |-> <<>>]
       ELSE IF ib.panic
       THEN [self |-> [self EXCEPT !.vertex_buffer = vb.self], panic |-> TRUE, calls |-> vb.calls]
       ELSE IF vertices # <<>> /\ self.indices # <<>>
       THEN IF vcopy.panic
            THEN [self |-> sized, panic |-> TRUE, calls |-> vb.calls \o ib.calls]
            ELSE IF icopy.panic
            THEN [self |-> sized, panic |-> TRUE, calls |-> vb.calls \o ib.calls \o <<vcall>>]
            ELSE [self |-> [sized EXCEPT !.index_count = Len(self.indices),
                                         !.should_update = FALSE],
                  panic |-> FALSE,
                  calls |-> vb.calls \o ib.calls \o <<vcall, icall>>]
       ELSE [self |-> [sized EXCEPT !.index_count = Len(self.indices),
                                    !.should_update = FALSE],
             panic |-> FALSE,
             calls |-> vb.calls \o ib.calls]

\* u16: the width of an index
U16 == 65536

\* vertices.len() as u16: the cast keeps the low sixteen bits
as_u16(n) == n % U16

\* t + offset on u16: with overflow checks (the default of a debug build) an
\* overflowing sum panics, without them it wraps
add_u16(t, offset, overflow_checks) ==
    IF t + offset >= U16
    THEN [value |-> (t + offset) % U16, panic |-> overflow_checks]
    ELSE [value |-> t + offset, panic |-> FALSE]

\* mesh.indices.iter().map(|t| t + offset)
offset_indices(indices, offset, overflow_checks) ==
    [value |-> [n \in DOMAIN indices |-> add_u16(indices[n], offset, overflow_checks).value],
     panic |-> \E n \in DOMAIN indices : add_u16(indices[n], offset, overflow_checks).panic]

\* the loop of Mesh::combine from mesh k on
RECURSIVE combine_loop(_, _, _, _)
combine_loop(acc, meshes, k, overflow_checks) ==
    IF acc.panic \/ k > Len(meshes) THEN acc
    ELSE LET shifted == offset_indices(meshes[k].indices, acc.offset, overflow_checks)
             vertices == acc.vertices \o meshes[k].vertices
         IN combine_loop(
                IF shifted.panic THEN [acc EXCEPT !.panic = TRUE]
                ELSE [indices |-> acc.indices \o shifted.value,
                      vertices |-> vertices,
                      normals |-> acc.normals \o meshes[k].normals,
                      uvs |-> acc.uvs \o meshes[k].uvs,
                      colors |-> acc.colors \o meshes[k].colors,
                      textures |-> acc.textures \o meshes[k].textures,
                      offset |-> as_u16(Len(vertices)),
                      panic |-> FALSE],
                meshes, k + 1, overflow_checks)

\* Mesh::combine
combine(meshes, debug_assertions) ==
    LET acc == combine_loop([indices |-> <<>>, vertices |-> <<>>, normals |-> <<>>,
                             uvs |-> <<>>, colors |-> <<>>, textures |-> <<>>,
                             offset |-> 0, panic |-> FALSE],
                            meshes, 1, debug_assertions)
        result == [MeshNew EXCEPT !.vertices = acc.vertices,
                                  !.normals = acc.normals,
                                  !.colors = acc.colors,
                                  !.uvs = acc.uvs,
                                  !.textures = acc.textures,
                                  !.indices = acc.indices,
                                  !.should_update = TRUE]
        updated == mesh_update_if_needed(result, debug_assertions)
    IN IF acc.panic THEN [self |-> MeshNew, panic |-> TRUE]
       ELSE [self |-> updated.self, panic |-> updated.panic]

----------------------------------------------------------------------------
(* The fields of Duku kept beside its uniforms and resources: src/src/duku.rs *)

\* const FPS_SAMPLE_COUNT
FPS_SAMPLE_COUNT == 64

\* the Err of a Result whose Ok holds a handle's index
Err == 0 - 1

\* a Duration: Duration::as_micros is high * 2^32 + low
Elapsed(high, low) == [high |-> high, low |-> low]

\* delta_time.as_micros() as u32: the cast keeps the low 32 bits
as_micros_u32(delta_time) == delta_time.low

\* the fields of Duku besides uniforms, resources and render_stage.  cubemaps
\* and models are the tables of Resources that add_cubemap and add_model fill
DukuFieldsNew(gpu_index) ==
    [gpu_index |-> gpu_index,
     frame_count |-> 0,
     fps_samples |-> [i \in 1..FPS_SAMPLE_COUNT |-> 0],
     fps |-> 0,
     delta_time |-> Elapsed(0, 0),
     cubemaps |-> <<>>,
     models |-> <<>>]

DukuFields == DOMAIN DukuFieldsNew(0)

----------------------------------------------------------------------------
(* The ImageUniform API driven directly, from ImageUniform::new *)

Init ==
    /\ uniform = ImageUniformNew
    /\ updates = <<>>
    /\ resources = ResourceManagerNew
    /\ removals = <<>>
    /\ render_stage = "Before"
    /\ calls = <<>>
    /\ render_unflushed = FALSE
    /\ duku = DukuFieldsNew(0)
    /\ op = "new"
    /\ arg = 0
    /\ ret = 0
    /\ panicked = FALSE
    /\ issued = IssuedNew
    /\ target = TargetNew
    /\ target_calls = 0
    /\ device = DeviceNew(TRUE)
    /\ buffer = dynamic("Uniform", 1, 1)
    /\ groups = GroupsNew
    /\ frame_calls = <<>>
    /\ heap = HeapNew
    /\ user_mesh = MeshNew

Add ==
    /\ ~panicked
    /\ UNCHANGED outsideUniform
    /\ Len(uniform.images) < MaxSlots
    /\ \E image \in Views :
        LET r == add(uniform, image)
        IN /\ uniform' = r.self
           /\ op' = "add"
           /\ arg' = image
           /\ ret' = r.ret
    /\ updates' = <<>>
    /\ UNCHANGED panicked

Remove ==
    /\ ~panicked
    /\ UNCHANGED outsideUniform
    /\ \E index \in -1..Len(uniform.images) :
        LET r == remove(uniform, index)
        IN /\ uniform' = r.self
           /\ panicked' = r.panic
           /\ op' = "remove"
           /\ arg' = index
    /\ ret' = 0
    /\ updates' = <<>>

SetSkybox ==
    /\ ~panicked
    /\ UNCHANGED outsideUniform
    /\ \E image \in Views :
        /\ uniform' = set_skybox(uniform, image)
        /\ arg' = image
    /\ op' = "set_skybox"
    /\ ret' = 0
    /\ updates' = <<>>
    /\ UNCHANGED panicked

UpdateIfNeeded ==
    /\ ~panicked
    /\ UNCHANGED outsideUniform
    /\ \E seen \in skybox_info(uniform) :
        LET r == update_if_needed(uniform, seen)
        IN /\ uniform' = r.self
           /\ panicked' = r.panic
           /\ updates' = r.updates
    /\ op' = "update_if_needed"
    /\ arg' = 0
    /\ ret' = 0

Next == Add \/ Remove \/ SetSkybox \/ UpdateIfNeeded

Spec == Init /\ [][Next]_vars

----------------------------------------------------------------------------
(* Properties of the ImageUniform API *)

\* the indices of the empty (tombstoned) slots
EmptySlots(images) == {i \in 0..(Len(images) - 1) : IsNone(At(images, i))}

\* the indices of the populated slots
PopulatedSlots(images) == {i \in 0..(Len(images) - 1) : ~IsNone(At(images, i))}

SetMin(S) == CHOOSE m \in S : \A n \in S : m <= n

\* C1: add(v) returns the lowest index whose slot is empty, and the slot count
\* (an append) only when no slot is empty; the view is stored at the returned
\* index; and after remove(i), when i is the lowest free index, an add returns i.
C1_AddReturnsLowestFree ==
    [][/\ Add =>
            /\ ret' = IF EmptySlots(uniform.images) = {}
                      THEN Len(uniform.images)
                      ELSE SetMin(EmptySlots(uniform.images))
            /\ At(uniform'.images, ret') = arg'
       /\ (Remove /\ ~panicked' /\ arg' = SetMin(EmptySlots(uniform'.images))) =>
            \A v \in Views : add(uniform', v).ret = arg'
      ]_vars

\* an add has just reused a tombstoned slot below the last slot
C1_Witness ==
    /\ op = "add"
    /\ ret < Len(uniform.images) - 1
    /\ At(uniform.images, ret) = arg

\* C2: remove(i) empties slot i only: the slot count and every other slot are
\* unchanged; and over any step a populated slot keeps its view at its index
\* unless the step is a remove of that very index.
C2_RemoveDoesNotCompact ==
    [][/\ (Remove /\ ~panicked') =>
            /\ Len(uniform'.images) = Len(uniform.images)
            /\ IsNone(At(uniform'.images, arg'))
            /\ \A j \in 0..(Len(uniform.images) - 1) :
                   j # arg' => At(uniform'.images, j) = At(uniform.images, j)
       /\ \A j \in PopulatedSlots(uniform.images) :
            ~(op' = "remove" /\ arg' = j) =>
                /\ j < Len(uniform'.images)
                /\ At(uniform'.images, j) = At(uniform.images, j)
      ]_vars

\* a remove has emptied a slot that has a populated slot after it
C2_Witness ==
    /\ op = "remove"
    /\ ~panicked
    /\ \E j \in PopulatedSlots(uniform.images) : j > arg

\* C4: every add, remove and set_skybox that returns sets should_update; an
\* update_if_needed that returns issues exactly one descriptor-set update and
\* clears the flag when the flag was set, and issues none when it was clear, in
\* particular when the previous operation was an update_if_needed.
C4_DirtyFlagBatches ==
    [][/\ (Add \/ (Remove /\ ~panicked') \/ SetSkybox) =>
            /\ uniform'.should_update
            /\ updates' = <<>>
       /\ (UpdateIfNeeded /\ ~panicked') =>
            /\ uniform.should_update => (Len(updates') = 1 /\ ~uniform'.should_update)
            /\ ~uniform.should_update => (updates' = <<>> /\ uniform' = uniform)
            /\ op = "update_if_needed" => updates' = <<>>
      ]_vars

\* one update has flushed at least two batched slot mutations
C4_Witness ==
    /\ op = "update_if_needed"
    /\ Len(updates) = 1
    /\ ~uniform.should_update
    /\ Len(uniform.images) >= 2

\* what a flush wrote besides the content of the skybox write: 100 image
\* entries, entry i being slot i's view when slot i is populated and slot 0's
\* view otherwise; then the 8 sampler combinations; and a third write, to
\* binding 2 and of one element, exactly when a skybox is set
FlushLayout ==
    (op = "update_if_needed" /\ updates # <<>>) =>
        LET writes == updates[1]
            images == uniform.images
        IN /\ Len(images) > 0
           /\ ~IsNone(At(images, 0))
           /\ Len(writes) = IF IsNone(uniform.skybox) THEN 2 ELSE 3
           /\ writes[1].dst_binding = 0
           /\ Len(writes[1].image_info) = 100
           /\ \A i \in 0..99 :
                At(writes[1].image_info, i) =
                    IF i \in PopulatedSlots(images) THEN At(images, i) ELSE At(images, 0)
           /\ writes[2].dst_binding = 1
           /\ Len(writes[2].image_info) = 8
           /\ {writes[2].image_info[n].sampler : n \in 1..8} =
                 [filter : {"Linear", "Nearest"}, address : {"Repeat", "Clamp"},
                  mipmaps : {"Enabled", "Disabled"}]
           /\ Len(writes) = 3 =>
                 /\ writes[3].dst_binding = 2
                 /\ Len(writes[3].image_info) = 1

\* C5: a flush writes exactly 100 image entries, entry i being slot i's view
\* when slot i is populated and slot 0's view otherwise; then the 8 sampler
\* combinations; and the skybox, to its binding, exactly when a skybox is set.
C5_FlushContents ==
    /\ FlushLayout
    /\ (op = "update_if_needed" /\ updates # <<>> /\ ~IsNone(uniform.skybox)) =>
           updates[1][3].image_info = <<uniform.skybox>>

\* C6: a pending flush panics, issuing no descriptor write and leaving the
\* group and its dirty flag as they were, whenever slot 0 is empty: removed,
\* or never added as in a freshly constructed group.
C6_FlushFailsWithoutSlotZero ==
    [][(/\ UpdateIfNeeded
        /\ uniform.should_update
        /\ (Len(uniform.images) = 0 \/ IsNone(At(uniform.images, 0)))) =>
            /\ panicked'
            /\ updates' = <<>>
            /\ uniform' = uniform
            /\ uniform'.should_update
      ]_vars

\* a flush has panicked on a group whose slot 0 was removed while slot 1 is populated
C6_Witness ==
    /\ panicked
    /\ op = "update_if_needed"
    /\ Len(uniform.images) >= 2
    /\ IsNone(At(uniform.images, 0))
    /\ ~IsNone(At(uniform.images, 1))

----------------------------------------------------------------------------
(* The ImageUniform API driven past the descriptor's image count: one view  *)
(* handle, and at most MaxHoles tombstoned slots at a time                  *)

CapAdd ==
    /\ ~panicked
    /\ UNCHANGED outsideUniform
    /\ Len(uniform.images) <= DescriptorImageCount
    /\ LET r == add(uniform, CapView)
       IN /\ uniform' = r.self
          /\ ret' = r.ret
    /\ op' = "add"
    /\ arg' = CapView
    /\ updates' = <<>>
    /\ UNCHANGED panicked

CapRemove ==
    /\ ~panicked
    /\ UNCHANGED outsideUniform
    /\ Cardinality({i \in 0..(Len(uniform.images) - 1) : IsNone(At(uniform.images, i))}) < MaxHoles
    /\ \E index \in 0..(Len(uniform.images) - 1) :
        LET r == remove(uniform, index)
        IN /\ uniform' = r.self
           /\ panicked' = r.panic
           /\ arg' = index
    /\ op' = "remove"
    /\ ret' = 0
    /\ updates' = <<>>

CapNext == CapAdd \/ CapRemove \/ UpdateIfNeeded

SpecCapacity == Init /\ [][CapNext]_vars

\* C3: the number of tracked slots never exceeds 100, every index returned by
\* add is in 0..99, and every populated slot is covered by the image entries
\* of a descriptor write.
C3_FixedCapacity ==
    /\ Len(uniform.images) <= 100
    /\ op = "add" => ret \in 0..99
    /\ (op = "update_if_needed" /\ updates # <<>>) =>
          \A i \in 0..(Len(uniform.images) - 1) :
              ~IsNone(At(uniform.images, i)) => i < Len(updates[1][1].image_info)

----------------------------------------------------------------------------
(* The ResourceManager driven together with its ImageUniform, from new *)

VecKinds == {"textures", "shaders", "fonts"}
MapKinds == {"materials", "meshes", "framebuffers"}

\* the handles the callers hold beyond the first one of each resource
RECURSIVE ExtraInVec(_)
ExtraInVec(storages) ==
    IF storages = <<>> THEN 0
    ELSE (IF Head(storages).count > 1 THEN Head(storages).count - 1 ELSE 0)
         + ExtraInVec(Tail(storages))

RECURSIVE ExtraInMap(_, _)
ExtraInMap(map, keys) ==
    IF keys = {} THEN 0
    ELSE LET k == CHOOSE x \in keys : TRUE
         IN (IF map[k].count > 1 THEN map[k].count - 1 ELSE 0) + ExtraInMap(map, keys \ {k})

Clones(self) ==
    ExtraInVec(self.textures) + ExtraInVec(self.shaders) + ExtraInVec(self.fonts)
    + ExtraInMap(self.materials, DOMAIN self.materials)
    + ExtraInMap(self.meshes, DOMAIN self.meshes)
    + ExtraInMap(self.framebuffers, DOMAIN self.framebuffers)

\* the number of entries the manager holds or has handed an index to
Held(self) ==
    Len(self.textures) + Len(self.shaders) + Len(self.fonts) + self.next_index

ResAddTexture ==
    /\ ~panicked
    /\ Held(resources) < MaxResources
    /\ LET t == TextureNew(uniform, CapView)
       IN /\ uniform' = t.uniform
          /\ resources' = add_texture(resources, t.texture)
          /\ ret' = t.texture.image_index
    /\ arg' = CapView
    /\ op' = "add_texture"
    /\ removals' = <<>>
    /\ UNCHANGED <<outsideResources, panicked>>

ResAddShader ==
    /\ ~panicked
    /\ Held(resources) < MaxResources
    /\ resources' = add_shader(resources, "shader")
    /\ op' = "add_shader"
    /\ arg' = 0
    /\ ret' = 0
    /\ removals' = <<>>
    /\ UNCHANGED <<uniform, outsideResources, panicked>>

ResAddFont ==
    /\ ~panicked
    /\ Held(resources) < MaxResources
    /\ resources' = add_font(resources, "font")
    /\ op' = "add_font"
    /\ arg' = 0
    /\ ret' = 0
    /\ removals' = <<>>
    /\ UNCHANGED <<uniform, outsideResources, panicked>>

ResAddMaterial ==
    /\ ~panicked
    /\ Held(resources) < MaxResources
    /\ LET r == add_material(resources, "material")
       IN /\ resources' = r.self
          /\ ret' = r.ret
          /\ issued' = [issued EXCEPT !.materials = @ \cup {r.ret}]
    /\ op' = "add_material"
    /\ arg' = 0
    /\ removals' = <<>>
    /\ UNCHANGED outsideAdd

ResAddMesh ==
    /\ ~panicked
    /\ Held(resources) < MaxResources
    /\ LET r == add_mesh(resources, "mesh")
       IN /\ resources' = r.self
          /\ ret' = r.ret
          /\ issued' = [issued EXCEPT !.meshes = @ \cup {r.ret}]
    /\ op' = "add_mesh"
    /\ arg' = 0
    /\ removals' = <<>>
    /\ UNCHANGED outsideAdd

ResAddFramebuffer ==
    /\ ~panicked
    /\ Held(resources) < MaxResources
    /\ LET r == add_framebuffer(resources, "framebuffer")
       IN /\ resources' = r.self
          /\ ret' = r.ret
          /\ issued' = [issued EXCEPT !.framebuffers = @ \cup {r.ret}]
    /\ op' = "add_framebuffer"
    /\ arg' = 0
    /\ removals' = <<>>
    /\ UNCHANGED outsideAdd

\* the caller clones a handle it holds
ResCloneHandle ==
    /\ ~panicked
    /\ Clones(resources) < MaxClones
    /\ \/ \E kind \in VecKinds : \E n \in 1..Len(resources[kind]) :
            /\ resources[kind][n].count > 0
            /\ resources' = [resources EXCEPT ![kind][n] = handle_clone(@)]
       \/ \E kind \in MapKinds : \E k \in DOMAIN resources[kind] :
            /\ resources[kind][k].count > 0
            /\ resources' = [resources EXCEPT ![kind][k] = handle_clone(@)]
    /\ op' = "clone"
    /\ arg' = 0
    /\ ret' = 0
    /\ removals' = <<>>
    /\ UNCHANGED <<uniform, outsideResources, panicked>>

\* the caller drops a handle it holds
ResDropHandle ==
    /\ ~panicked
    /\ \/ \E kind \in VecKinds : \E n \in 1..Len(resources[kind]) :
            /\ resources[kind][n].count > 0
            /\ resources' = [resources EXCEPT ![kind][n] = handle_drop(@)]
       \/ \E kind \in MapKinds : \E k \in DOMAIN resources[kind] :
            /\ resources[kind][k].count > 0
            /\ resources' = [resources EXCEPT ![kind][k] = handle_drop(@)]
    /\ op' = "drop"
    /\ arg' = 0
    /\ ret' = 0
    /\ removals' = <<>>
    /\ UNCHANGED <<uniform, outsideResources, panicked>>

ResCleanUnused ==
    /\ ~panicked
    /\ LET r == clean_unused(resources, uniform)
       IN /\ resources' = r.self
          /\ uniform' = r.uniform
          /\ panicked' = r.panic
          /\ removals' = r.removals
    /\ op' = "clean_unused"
    /\ arg' = 0
    /\ ret' = 0
    /\ UNCHANGED outsideResources

ResNext ==
    \/ ResAddTexture
    \/ ResAddShader
    \/ ResAddFont
    \/ ResAddMaterial
    \/ ResAddMesh
    \/ ResAddFramebuffer
    \/ ResCloneHandle
    \/ ResDropHandle
    \/ ResCleanUnused

SpecResources == Init /\ [][ResNext]_vars

----------------------------------------------------------------------------
(* Duku: src/src/duku.rs. The ImageUniform stands for the image group of    *)
(* Uniforms and the ResourceManager for Resources.                          *)

\* the built-in textures made by Builtins::new and held by Duku::builtins
BuiltinTextures == <<"white_texture", "blue_texture", "black_texture">>

\* Builtins::new: each built-in texture is registered with the image uniform and stored
RECURSIVE BuiltinsNew(_, _, _)
BuiltinsNew(self_resources, image_uniform, n) ==
    IF n > Len(BuiltinTextures) THEN [resources |-> self_resources, uniform |-> image_uniform]
    ELSE LET t == TextureNew(image_uniform, CapView)
         IN BuiltinsNew(add_texture(self_resources, t.texture), t.uniform, n + 1)

\* ForwardRenderer::new as build calls it: it is handed the uniforms
\* mutably; its shadow framebuffers are depth attachments read through the
\* shadow-map descriptors, and no slot of the image group is taken for them
forward_renderer_new(image_uniform) == image_uniform

\* DukuBuilder::build.  window is FALSE when no window was attached; listed is
\* the number of GPUs instance.gpu_properties returns, picked the outcome of
\* pick_gpu, builtins_made and renderer_made are FALSE when Builtins::new and
\* ForwardRenderer::new return an Err.  On an Err the locals made so far are
\* dropped, the Builtins among them, and no destroy is called
build(window, listed, picked, builtins_made, renderer_made) ==
    LET b == BuiltinsNew(ResourceManagerNew, ImageUniformNew, 1)
        nothing == [uniforms |-> ImageUniformNew, resources |-> ResourceManagerNew,
                    render_stage |-> "None"] @@ DukuFieldsNew(0)
        setup == <<"instance_new", "surface_new", "gpu_properties", "pick_gpu">>
        made == setup \o <<"device_new", "swapchain_new", "uniforms_new", "builtins_new">>
    IN IF ~window
       THEN [self |-> nothing, panic |-> TRUE, ok |-> FALSE, calls |-> <<>>]
       ELSE IF ~picked.ok
       THEN [self |-> nothing, panic |-> FALSE, ok |-> FALSE, calls |-> setup]
       ELSE IF picked.gpu_index >= listed
       THEN [self |-> nothing, panic |-> TRUE, ok |-> FALSE, calls |-> setup]
       ELSE IF ~builtins_made
       THEN [self |-> nothing, panic |-> FALSE, ok |-> FALSE, calls |-> made]
       ELSE IF ~renderer_made
       THEN [self |-> [nothing EXCEPT !.uniforms = b.uniform, !.resources = b.resources],
             panic |-> FALSE, ok |-> FALSE,
             calls |-> made \o <<"for_swapchain", "forward_renderer_new", "builtins_none">>]
       ELSE [self |-> [uniforms |-> forward_renderer_new(b.uniform),
                       resources |-> b.resources,
                       render_stage |-> "Before"] @@ DukuFieldsNew(picked.gpu_index),
             panic |-> FALSE, ok |-> TRUE,
             calls |-> made \o <<"for_swapchain", "forward_renderer_new">>]

\* the Duku of a build that succeeded on the only GPU listed
DukuBuild == build(TRUE, 1, [ok |-> TRUE, gpu_index |-> 0], TRUE, TRUE).self

\* a frame begin that flushes the image uniform before collecting the garbage
begin_draw_flush_first(self, seen) ==
    LET flush == update_if_needed(self.uniforms, seen)
        gc == clean_unused(self.resources, flush.self)
    IN IF flush.panic
       THEN [self |-> [self EXCEPT !.render_stage = "During"],
             panic |-> TRUE, removals |-> <<>>, updates |-> <<>>,
             calls |-> <<"next_frame", "update_if_needed">>]
       ELSE IF gc.panic
       THEN [self |-> [self EXCEPT !.render_stage = "During", !.uniforms = flush.self],
             panic |-> TRUE, removals |-> gc.removals, updates |-> flush.updates,
             calls |-> <<"next_frame", "update_if_needed", "clear_unused">>]
       ELSE [self |-> [self EXCEPT !.render_stage = "During", !.resources = gc.self,
                                   !.uniforms = gc.uniform],
             panic |-> FALSE, removals |-> gc.removals, updates |-> flush.updates,
             calls |-> <<"next_frame", "update_if_needed", "clear_unused",
                         "resources_update_if_needed", "bind_descriptor">>]

\* Duku::begin_draw.  Resources::update_if_needed runs between the garbage
\* collection and the flush of the image uniform; the resources held here
\* are not edited after their creation, so it finds nothing to update
begin_draw(self, seen) ==
    LET gc == clean_unused(self.resources, self.uniforms)
        flush == update_if_needed(gc.uniform, seen)
    IN IF gc.panic
       THEN [self |-> [self EXCEPT !.render_stage = "During"],
             panic |-> TRUE, removals |-> gc.removals, updates |-> <<>>,
             calls |-> <<"next_frame", "clear_unused">>]
       ELSE IF flush.panic
       THEN [self |-> [self EXCEPT !.render_stage = "During", !.resources = gc.self,
                                   !.uniforms = gc.uniform],
             panic |-> TRUE, removals |-> gc.removals, updates |-> <<>>,
             calls |-> <<"next_frame", "clear_unused", "resources_update_if_needed",
                         "update_if_needed">>]
       ELSE [self |-> [self EXCEPT !.render_stage = "During", !.resources = gc.self,
                                   !.uniforms = flush.self],
             panic |-> FALSE, removals |-> gc.removals, updates |-> flush.updates,
             calls |-> <<"next_frame", "clear_unused", "resources_update_if_needed",
                         "update_if_needed", "bind_descriptor">>]

\* fps_samples.iter().sum() over the first n samples
RECURSIVE SumOf(_, _)
SumOf(samples, n) == IF n = 0 THEN 0 ELSE samples[n] + SumOf(samples, n - 1)

\* the frame statistics of end_draw, for elapsed microseconds that are not 0:
\* one sample written at frame_count % FPS_SAMPLE_COUNT, the count advanced,
\* fps the sum of the samples as an f32, divided by FPS_SAMPLE_COUNT as an
\* f32, rounded up and cast back to u32.  A sample is at most 1000000, and so
\* is their mean: the fps is kept as an integer
frame_stats(self, micros) ==
    LET samples == [self.fps_samples EXCEPT ![(self.frame_count % FPS_SAMPLE_COUNT) + 1] =
                        1000000 \div micros]
    IN [self EXCEPT !.fps_samples = samples,
                    !.frame_count = @ + 1,
                    !.fps = only({mean.high * pow2(16) + mean.low :
                                  mean \in {as_u32(fceil(fdiv(as_f32(SumOf(samples,
                                                                          FPS_SAMPLE_COUNT)),
                                                               as_f32(FPS_SAMPLE_COUNT))))}})]

\* the framebuffers Framebuffer::for_swapchain made for the window
WindowFramebuffers == 2

\* for framebuffer in &self.window_framebuffers { framebuffer.destroy(..) }
destroy_window_framebuffers == [n \in 1..WindowFramebuffers |-> "framebuffer_destroy"]

\* Duku::end_draw.  elapsed is frame_time.elapsed(), listed the number of GPUs
\* instance.gpu_properties returns when the swapchain is to be recreated.
\* The division by the elapsed microseconds panics when they are 0 as a u32,
\* after the stage, the submit, the present and delta_time; the GPUs are
\* listed again after wait_idle, and Vec::remove panics when gpu_index is not
\* below the number of GPUs listed.  The window
\* framebuffers come from Framebuffer::for_swapchain, which is not handed the
\* uniforms, so their destroy has no slot of the image group to release
end_draw(self, should_resize, elapsed, listed) ==
    LET ended == [self EXCEPT !.render_stage = "Before", !.delta_time = elapsed]
        micros == as_micros_u32(elapsed)
    IN IF micros = 0
       THEN [self |-> ended, panic |-> TRUE, calls |-> <<"submit", "present">>]
       ELSE IF ~should_resize
       THEN [self |-> frame_stats(ended, micros), panic |-> FALSE,
             calls |-> <<"submit", "present">>]
       ELSE IF self.gpu_index >= listed
       THEN [self |-> frame_stats(ended, micros), panic |-> TRUE,
             calls |-> <<"submit", "present", "wait_idle", "gpu_properties">>]
       ELSE [self |-> frame_stats(ended, micros), panic |-> FALSE,
             calls |-> <<"submit", "present", "wait_idle", "gpu_properties", "recreate">>
                       \o destroy_window_framebuffers \o <<"for_swapchain">>]

begin_every_call(self, seen) == begin_draw(self, seen)

\* the frame start shared by draw and draw_on_window: begin_draw when the stage is Before
begin_if_before(self, seen) ==
    IF self.render_stage = "Before"
    THEN begin_draw(self, seen)
    ELSE [self |-> self, panic |-> FALSE, removals |-> <<>>, updates |-> <<>>, calls |-> <<>>]

\* Duku::draw
draw(self, seen) ==
    LET b == begin_if_before(self, seen)
    IN IF b.panic
       THEN [b EXCEPT !.calls = b.calls] @@ [render_unflushed |-> FALSE]
       ELSE [b EXCEPT !.calls = b.calls \o <<"render">>]
            @@ [render_unflushed |-> b.self.uniforms.should_update]

\* Duku::draw_on_window
draw_on_window(self, should_resize, elapsed, listed, seen) ==
    LET b == begin_if_before(self, seen)
        e == end_draw(b.self, should_resize, elapsed, listed)
    IN IF b.panic
       THEN [b EXCEPT !.calls = b.calls] @@ [render_unflushed |-> FALSE]
       ELSE [b EXCEPT !.self = e.self, !.panic = e.panic,
                      !.calls = b.calls \o <<"render">> \o e.calls]
            @@ [render_unflushed |-> b.self.uniforms.should_update]

\* a drop that destroys the device before the swapchain and the surface
duku_drop_device_first(self) ==
    [self |-> self,
     calls |-> <<"wait_idle", "builtins_none", "resources_clear", "forward_renderer_destroy">>
               \o destroy_window_framebuffers
               \o <<"uniforms_destroy", "device_destroy", "destroy_swapchain",
                    "destroy_surface", "instance_destroy">>]

\* impl Drop for Duku: the calls made, in order
duku_drop(self) ==
    [self |-> self,
     calls |-> <<"wait_idle", "builtins_none", "resources_clear", "forward_renderer_destroy">>
               \o destroy_window_framebuffers
               \o <<"uniforms_destroy", "destroy_swapchain", "destroy_surface",
                    "device_destroy", "instance_destroy">>]

\* Duku::create_texture.  created is FALSE when Texture::new returns an Err,
\* and nothing is registered or stored then
create_texture(self, view, created) ==
    LET t == TextureNew(self.uniforms, view)
    IN IF ~created
       THEN [self |-> self, ret |-> Err, calls |-> <<"texture_new">>]
       ELSE [self |-> [self EXCEPT !.uniforms = t.uniform,
                                   !.resources = add_texture(self.resources, t.texture)],
             ret |-> t.texture.image_index,
             calls |-> <<"texture_new", "add_texture">>]

\* Duku::create_texture_color: the pixels flattened to bytes, then create_texture
create_texture_color(self, view, created) == create_texture(self, view, created)

\* Duku::create_texture_jpeg_bytes of the jpeg feature.  decoded is FALSE when
\* load_jpeg returns an Err
create_texture_jpeg_bytes(self, view, decoded, created) ==
    IF ~decoded
    THEN [self |-> self, ret |-> Err, calls |-> <<"load_jpeg">>]
    ELSE [create_texture(self, view, created) EXCEPT !.calls = <<"load_jpeg">> \o @]

\* Duku::create_texture_jpeg of the jpeg feature.  found is FALSE when
\* fs::read returns an Err
create_texture_jpeg(self, view, found, decoded, created) ==
    IF ~found
    THEN [self |-> self, ret |-> Err, calls |-> <<"fs_read">>]
    ELSE [create_texture_jpeg_bytes(self, view, decoded, created)
              EXCEPT !.calls = <<"fs_read">> \o @]

\* Cubemap::new: binds the cubemap's view in the image group
CubemapNew(image_uniform, view) ==
    [uniform |-> set_skybox(image_uniform, view), cubemap |-> [view |-> view]]

\* Duku::create_cubemap
create_cubemap(self, view, created) ==
    LET c == CubemapNew(self.uniforms, view)
    IN IF ~created
       THEN [self |-> self, ret |-> Err, calls |-> <<"cubemap_new">>]
       ELSE [self |-> [self EXCEPT !.uniforms = c.uniform,
                                   !.cubemaps = Append(@, StorageNew(c.cubemap))],
             ret |-> Len(self.cubemaps),
             calls |-> <<"cubemap_new", "add_cubemap">>]

\* what a mesh creator of Duku does with the Mesh it made
mesh_added(self, made, maker) ==
    LET r == add_mesh(self.resources, made)
    IN [self |-> [self EXCEPT !.resources = r.self], ret |-> r.ret, panic |-> FALSE,
        calls |-> <<maker, "add_mesh">>]

\* Duku::create_mesh
create_mesh(self) == mesh_added(self, MeshNew, "mesh_new")

\* Duku::create_mesh_cube, create_mesh_sphere_ico and create_mesh_sphere_uv:
\* the Mesh of the shape is stored, its geometry is left out
create_mesh_cube(self) == mesh_added(self, MeshNew, "create_cube")

create_mesh_sphere_ico(self, detail) == mesh_added(self, MeshNew, "create_ico_sphere")

create_mesh_sphere_uv(self, meridians, parallels) ==
    mesh_added(self, MeshNew, "create_uv_sphere")

\* Duku::combine_meshes: the meshes behind the handles, combined into a new one
combine_meshes(self, handles, debug_assertions) ==
    LET ms == [n \in DOMAIN handles |-> self.resources.meshes[handles[n]].value]
        c == combine(ms, debug_assertions)
    IN IF c.panic
       THEN [self |-> self, ret |-> Err, panic |-> TRUE, calls |-> <<"mesh_combine">>]
       ELSE mesh_added(self, c.self, "mesh_combine")

\* Duku::create_model
create_model(self) ==
    [self |-> [self EXCEPT !.models = Append(@, StorageNew([nodes |-> <<>>]))],
     ret |-> Len(self.models),
     calls |-> <<"add_model">>]

\* what create_material and create_material_pbr do with the Material they made
material_added(self, made, created) ==
    LET r == add_material(self.resources, made)
    IN IF ~created
       THEN [self |-> self, ret |-> Err, calls |-> <<"material_new">>]
       ELSE [self |-> [self EXCEPT !.resources = r.self], ret |-> r.ret,
             calls |-> <<"material_new", "add_material">>]

\* Duku::create_material.  created is FALSE when Material::new returns an Err
create_material(self, created) == material_added(self, "material", created)

\* self.builtins().<texture>.clone() for each name of held, in order: one more
\* handle of that built-in texture, which Builtins::new stored at the place
\* the name has in BuiltinTextures
RECURSIVE builtins_cloned(_, _)
builtins_cloned(textures, held) ==
    IF held = <<>> THEN textures
    ELSE LET n == CHOOSE k \in DOMAIN BuiltinTextures : BuiltinTextures[k] = Head(held)
         IN builtins_cloned([textures EXCEPT ![n] = handle_clone(@)], Tail(held))

\* Duku::create_material_pbr: after Material::new the material is handed five
\* clones of the handles of the built-in white, blue and black textures and
\* updated, then added
create_material_pbr(self, created) ==
    LET held == <<"white_texture", "blue_texture", "white_texture", "white_texture",
                  "black_texture">>
        made == [albedo_texture |-> held[1], normal_texture |-> held[2],
                 metalness_roughness_texture |-> held[3],
                 ambient_occlusion_texture |-> held[4], emissive_texture |-> held[5]]
        lent == [self EXCEPT !.resources.textures = builtins_cloned(@, held)]
    IN IF ~created
       THEN material_added(self, made, FALSE)
       ELSE [material_added(lent, made, TRUE)
                 EXCEPT !.calls = <<"material_new", "material_update", "add_material">>]

\* Duku::create_shader_spirv_bytes.  compiled is FALSE when
\* Shader::from_spirv_bytes returns an Err
create_shader_spirv_bytes(self, compiled) ==
    IF ~compiled
    THEN [self |-> self, ret |-> Err, calls |-> <<"shader_from_spirv_bytes">>]
    ELSE [self |-> [self EXCEPT !.resources = add_shader(self.resources, "shader")],
          ret |-> Len(self.resources.shaders),
          calls |-> <<"shader_from_spirv_bytes", "add_shader">>]

\* Duku::create_shader_spirv.  found is FALSE when fs::read returns an Err
create_shader_spirv(self, found, compiled) ==
    IF ~found
    THEN [self |-> self, ret |-> Err, calls |-> <<"fs_read">>]
    ELSE [create_shader_spirv_bytes(self, compiled) EXCEPT !.calls = <<"fs_read">> \o @]

\* Framebuffer::new: registers the framebuffer's shader image with the image uniform
FramebufferNew(image_uniform, view) ==
    LET r == add(image_uniform, view)
    IN [uniform |-> r.self, framebuffer |-> [image_index |-> r.ret]]

\* Duku::create_framebuffer.  created is FALSE when Framebuffer::new returns
\* an Err, added when forward_renderer.add_target does: the framebuffer is then
\* registered with the uniforms, not stored in the resources, and dropped
\* without destroy.  add_target is handed the uniforms; the target it adds
\* holds shadow framebuffers, which take no slot of the image group
create_framebuffer(self, view, created, added) ==
    LET f == FramebufferNew(self.uniforms, view)
        r == add_framebuffer(self.resources, f.framebuffer)
    IN IF ~created
       THEN [self |-> self, ret |-> Err, calls |-> <<"framebuffer_new">>]
       ELSE IF ~added
       THEN [self |-> [self EXCEPT !.uniforms = f.uniform],
             ret |-> Err, calls |-> <<"framebuffer_new", "add_target">>]
       ELSE [self |-> [self EXCEPT !.uniforms = f.uniform, !.resources = r.self],
             ret |-> r.ret,
             calls |-> <<"framebuffer_new", "add_target", "add_framebuffer">>]

\* Duku::create_framebuffer_for_shader: the same steps with the shader's config
create_framebuffer_for_shader(self, shader, view, created, added) ==
    create_framebuffer(self, view, created, added)

----------------------------------------------------------------------------
(* The frame driver, from DukuBuilder::build *)

Duku ==
    [uniforms |-> uniform, resources |-> resources, render_stage |-> render_stage] @@ duku

\* the fields of a Duku that the variable duku holds
fields_of(self) == [f \in DukuFields |-> self[f]]

\* a Duku exists: build returned Ok
HasDuku == render_stage # "None"

\* the GPUs listed, the frames ended and the resources created beside the built-in ones
MaxGpus == 1
MaxFrames == 2
MaxCreated == 2

\* the outcomes of pick_gpu over a list of GPUs: an Err, or the index of one of them
Picks(listed) ==
    {[ok |-> FALSE, gpu_index |-> 0]} \cup {[ok |-> TRUE, gpu_index |-> i] : i \in 0..(listed - 1)}

\* the times a frame can have taken: none measurable, 2^32 microseconds and
\* a sixtieth of a second
Durations == {Elapsed(0, 0), Elapsed(1, 0), Elapsed(0, 16667)}

DukuInit ==
    /\ \E window \in BOOLEAN, listed \in 0..MaxGpus, builtins_made \in BOOLEAN,
          renderer_made \in BOOLEAN :
        \E picked \in Picks(listed) :
            LET r == build(window, listed, picked, builtins_made, renderer_made)
            IN /\ uniform = r.self.uniforms
               /\ resources = r.self.resources
               /\ render_stage = r.self.render_stage
               /\ duku = fields_of(r.self)
               /\ calls = r.calls
               /\ panicked = r.panic
               /\ ret = IF r.ok THEN 0 ELSE Err
               /\ arg = [window |-> window, listed |-> listed, picked |-> picked,
                         builtins_made |-> builtins_made, renderer_made |-> renderer_made]
    /\ updates = <<>>
    /\ removals = <<>>
    /\ render_unflushed = FALSE
    /\ op = "build"
    /\ issued = IssuedNew
    /\ target = TargetNew
    /\ target_calls = 0
    /\ device = DeviceNew(TRUE)
    /\ buffer = dynamic("Uniform", 1, 1)
    /\ groups = GroupsNew
    /\ frame_calls = <<>>
    /\ heap = HeapNew
    /\ user_mesh = MeshNew

\* the resources a Duku holds, the tables of cubemaps and models included
DukuHeld == Held(resources) + Len(duku.cubemaps) + Len(duku.models)

\* room for one more resource
Room ==
    /\ DukuHeld < Len(BuiltinTextures) + MaxCreated
    /\ Len(uniform.images) < Len(BuiltinTextures) + MaxCreated

\* a create function of Duku has returned r
Created(name, input, r) ==
    /\ uniform' = r.self.uniforms
    /\ resources' = r.self.resources
    /\ duku' = fields_of(r.self)
    /\ ret' = r.ret
    /\ calls' = r.calls
    /\ op' = name
    /\ arg' = input
    /\ updates' = <<>>
    /\ removals' = <<>>
    /\ UNCHANGED <<render_stage, render_unflushed, targetVars, deviceVars>>

DukuCreateTexture ==
    /\ ~panicked /\ HasDuku /\ Room
    /\ \E created \in BOOLEAN :
        Created("create_texture", CapView, create_texture(Duku, CapView, created))
    /\ UNCHANGED <<panicked, issued>>

DukuCreateTextureJpeg ==
    /\ ~panicked /\ HasDuku /\ Room
    /\ \E found \in BOOLEAN, decoded \in BOOLEAN, created \in BOOLEAN :
        Created("create_texture_jpeg", CapView,
                create_texture_jpeg(Duku, CapView, found, decoded, created))
    /\ UNCHANGED <<panicked, issued>>

DukuCreateTextureJpegBytes ==
    /\ ~panicked /\ HasDuku /\ Room
    /\ \E decoded \in BOOLEAN, created \in BOOLEAN :
        Created("create_texture_jpeg_bytes", CapView,
                create_texture_jpeg_bytes(Duku, CapView, decoded, created))
    /\ UNCHANGED <<panicked, issued>>

DukuCreateTextureColor ==
    /\ ~panicked /\ HasDuku /\ Room
    /\ \E created \in BOOLEAN :
        Created("create_texture_color", CapView, create_texture_color(Duku, CapView, created))
    /\ UNCHANGED <<panicked, issued>>

DukuCreateCubemap ==
    /\ ~panicked /\ HasDuku /\ Room
    /\ \E created \in BOOLEAN :
        Created("create_cubemap", CapView, create_cubemap(Duku, CapView, created))
    /\ UNCHANGED <<panicked, issued>>

DukuCreateMesh ==
    /\ ~panicked /\ HasDuku /\ Room
    /\ Created("create_mesh", 0, create_mesh(Duku))
    /\ UNCHANGED <<panicked, issued>>

DukuCreateMeshCube ==
    /\ ~panicked /\ HasDuku /\ Room
    /\ Created("create_mesh_cube", 0, create_mesh_cube(Duku))
    /\ UNCHANGED <<panicked, issued>>

DukuCreateMeshSphereIco ==
    /\ ~panicked /\ HasDuku /\ Room
    /\ Created("create_mesh_sphere_ico", 1, create_mesh_sphere_ico(Duku, 1))
    /\ UNCHANGED <<panicked, issued>>

DukuCreateMeshSphereUv ==
    /\ ~panicked /\ HasDuku /\ Room
    /\ Created("create_mesh_sphere_uv", <<3, 2>>, create_mesh_sphere_uv(Duku, 3, 2))
    /\ UNCHANGED <<panicked, issued>>

DukuCombineMeshes ==
    /\ ~panicked /\ HasDuku /\ Room
    /\ \E first \in DOMAIN resources.meshes, second \in DOMAIN resources.meshes :
        LET r == combine_meshes(Duku, <<first, second>>, device.debug_assertions)
        IN /\ Created("combine_meshes", <<first, second>>, r)
           /\ panicked' = r.panic
    /\ UNCHANGED issued

DukuCreateModel ==
    /\ ~panicked /\ HasDuku /\ Room
    /\ Created("create_model", 0, create_model(Duku))
    /\ UNCHANGED <<panicked, issued>>

DukuCreateMaterial ==
    /\ ~panicked /\ HasDuku /\ Room
    /\ \E created \in BOOLEAN :
        Created("create_material", 0, create_material(Duku, created))
    /\ UNCHANGED <<panicked, issued>>

DukuCreateMaterialPbr ==
    /\ ~panicked /\ HasDuku /\ Room
    /\ \E created \in BOOLEAN :
        Created("create_material_pbr", 0, create_material_pbr(Duku, created))
    /\ UNCHANGED <<panicked, issued>>

DukuCreateShaderSpirv ==
    /\ ~panicked /\ HasDuku /\ Room
    /\ \E found \in BOOLEAN, compiled \in BOOLEAN :
        Created("create_shader_spirv", 0, create_shader_spirv(Duku, found, compiled))
    /\ UNCHANGED <<panicked, issued>>

DukuCreateShaderSpirvBytes ==
    /\ ~panicked /\ HasDuku /\ Room
    /\ \E compiled \in BOOLEAN :
        Created("create_shader_spirv_bytes", 0, create_shader_spirv_bytes(Duku, compiled))
    /\ UNCHANGED <<panicked, issued>>

DukuCreateFramebuffer ==
    /\ ~panicked /\ HasDuku /\ Room
    /\ \E created \in BOOLEAN, added \in BOOLEAN :
        LET r == create_framebuffer(Duku, CapView, created, added)
        IN /\ Created("create_framebuffer", CapView, r)
           /\ issued' = IF r.ret = Err THEN issued
                        ELSE [issued EXCEPT !.framebuffers = @ \cup {r.ret}]
    /\ UNCHANGED panicked

DukuCreateFramebufferForShader ==
    /\ ~panicked /\ HasDuku /\ Room
    /\ \E shader \in DOMAIN resources.shaders, created \in BOOLEAN, added \in BOOLEAN :
        LET r == create_framebuffer_for_shader(Duku, shader, CapView, created, added)
        IN /\ Created("create_framebuffer_for_shader", CapView, r)
           /\ issued' = IF r.ret = Err THEN issued
                        ELSE [issued EXCEPT !.framebuffers = @ \cup {r.ret}]
    /\ UNCHANGED panicked

\* the application drops its handle of a texture it created
DukuDropTexture ==
    /\ ~panicked /\ HasDuku
    /\ \E n \in (Len(BuiltinTextures) + 1)..Len(resources.textures) :
        /\ resources.textures[n].count > 0
        /\ resources' = [resources EXCEPT !.textures[n] = handle_drop(@)]
    /\ op' = "drop"
    /\ arg' = 0
    /\ ret' = 0
    /\ updates' = <<>>
    /\ removals' = <<>>
    /\ calls' = <<>>
    /\ UNCHANGED <<uniform, render_stage, render_unflushed, duku, panicked, issued, targetVars,
                   deviceVars>>

\* the GPUs are listed only for a resize: without one the list is not read,
\* and its length is taken as that of the build
Listing(should_resize, listed) == should_resize \/ listed = MaxGpus

\* a draw function of Duku has returned r
Drawn(name, r) ==
    /\ uniform' = r.self.uniforms
    /\ resources' = r.self.resources
    /\ render_stage' = r.self.render_stage
    /\ duku' = fields_of(r.self)
    /\ updates' = r.updates
    /\ removals' = r.removals
    /\ calls' = r.calls
    /\ render_unflushed' = r.render_unflushed
    /\ panicked' = r.panic
    /\ op' = name
    /\ ret' = 0
    /\ UNCHANGED <<issued, targetVars, device, buffer, groups, heap, user_mesh>>

DukuDraw ==
    /\ ~panicked /\ HasDuku
    /\ \E h \in DOMAIN resources.framebuffers :
        /\ resources.framebuffers[h].count > 0
        /\ arg' = h
    /\ \E seen \in skybox_info(uniform) : Drawn("draw", draw(Duku, seen))
    /\ UNCHANGED frame_calls

DukuDrawOnWindow ==
    /\ ~panicked /\ HasDuku
    /\ duku.frame_count < MaxFrames
    /\ \E should_resize \in BOOLEAN, elapsed \in Durations, listed \in 0..MaxGpus,
          seen \in skybox_info(uniform) :
        /\ Listing(should_resize, listed)
        /\ Drawn("draw_on_window", draw_on_window(Duku, should_resize, elapsed, listed, seen))
        /\ arg' = [should_resize |-> should_resize, elapsed |-> elapsed, listed |-> listed]
    /\ UNCHANGED frame_calls

DukuNext ==
    \/ DukuCreateTexture
    \/ DukuCreateTextureColor
    \/ DukuCreateTextureJpeg
    \/ DukuCreateTextureJpegBytes
    \/ DukuCreateCubemap
    \/ DukuCreateMesh
    \/ DukuCreateMeshCube
    \/ DukuCreateMeshSphereIco
    \/ DukuCreateMeshSphereUv
    \/ DukuCombineMeshes
    \/ DukuCreateModel
    \/ DukuCreateMaterial
    \/ DukuCreateMaterialPbr
    \/ DukuCreateShaderSpirv
    \/ DukuCreateShaderSpirvBytes
    \/ DukuCreateFramebuffer
    \/ DukuCreateFramebufferForShader
    \/ DukuDropTexture
    \/ DukuDraw
    \/ DukuDrawOnWindow

SpecDuku == DukuInit /\ [][DukuNext]_vars

\* C7: every render of a frame happens while the image uniform group has no
\* unflushed mutation, whatever the interleaving of create_texture,
\* create_framebuffer, draw and draw_on_window.
C7_RenderSeesFlushedImages ==
    (op \in {"draw", "draw_on_window"} /\ ~panicked) =>
        /\ ~render_unflushed
        /\ ~uniform.should_update

----------------------------------------------------------------------------
(* Properties of garbage collection *)

\* the positions of the storages that are still referenced
UsedPositions(storages) == {n \in 1..Len(storages) : storages[n].count # 0}

\* the positions of the storages whose reference count is zero
UnusedPositions(storages) == {n \in 1..Len(storages) : storages[n].count = 0}

\* the i-th smallest element of a set of positions
NthOf(S, i) == CHOOSE n \in S : Cardinality({m \in S : m < n}) = i - 1

\* after holds exactly the still-referenced storages of before, in their order
IsRetained(before, after) ==
    /\ Len(after) = Cardinality(UsedPositions(before))
    /\ \A i \in 1..Len(after) : after[i] = before[NthOf(UsedPositions(before), i)]

\* C8: when a texture added at image slot k has reference count zero, then
\* after clean_unused slot k is empty and the image group is dirty, and an add
\* returns k whenever k is the lowest free index.
C8_CollectionReleasesSlot ==
    [][ResCleanUnused =>
          \A n \in UnusedPositions(resources.textures) :
              LET k == resources.textures[n].value.image_index
              IN /\ IsNone(At(uniform'.images, k))
                 /\ uniform'.should_update
                 /\ k = SetMin(EmptySlots(uniform'.images)) =>
                        /\ add(uniform', CapView).ret = k
                        /\ TextureNew(uniform', CapView).texture.image_index = k
      ]_vars

\* a texture created after a collection has taken over a released slot below the last slot
C8_Witness ==
    /\ op = "add_texture"
    /\ ret < Len(uniform.images) - 1
    /\ \E n \in 1..Len(resources.textures) : resources.textures[n].value.image_index = ret

\* C9: clean_unused removes a texture, shader or font entry exactly when its
\* count is zero and keeps the others in their order; uniform.remove is called
\* exactly once for each removed texture, with its image index; the image slot
\* of a texture that is still stored is never freed.
C9_CollectsExactlyUnused ==
    [][/\ ResCleanUnused =>
            /\ \A kind \in VecKinds : IsRetained(resources[kind], resources'[kind])
            /\ Len(removals') = Cardinality(UnusedPositions(resources.textures))
            /\ \A n \in UnusedPositions(resources.textures) :
                   Cardinality({m \in 1..Len(removals') :
                       removals'[m] = resources.textures[n].value.image_index}) = 1
            /\ \A n \in UsedPositions(resources.textures) :
                   LET k == resources.textures[n].value.image_index
                   IN At(uniform'.images, k) = At(uniform.images, k)
       /\ \A n \in 1..Len(resources'.textures) :
            LET k == resources'.textures[n].value.image_index
            IN k < Len(uniform'.images) /\ ~IsNone(At(uniform'.images, k))
      ]_vars

\* a collection has removed a texture and kept two others
C9_Witness ==
    /\ op = "clean_unused"
    /\ Len(removals) >= 1
    /\ Len(resources.textures) >= 2

\* C10: clean_unused leaves the material, mesh and framebuffer tables and
\* next_index unchanged, and an entry of these tables stays resolvable over
\* every step whatever its count of outstanding handles.
C10_TablesNotCollected ==
    [][/\ ResCleanUnused =>
            /\ resources'.materials = resources.materials
            /\ resources'.meshes = resources.meshes
            /\ resources'.framebuffers = resources.framebuffers
            /\ resources'.next_index = resources.next_index
       /\ \A kind \in MapKinds : \A k \in DOMAIN resources[kind] :
            /\ k \in DOMAIN resources'[kind]
            /\ resources'[kind][k].value = resources[kind][k].value
      ]_vars

\* a collection has run over a mesh, a material and a framebuffer, the mesh without any handle left
C10_Witness ==
    /\ op = "clean_unused"
    /\ \E k \in DOMAIN resources.meshes : resources.meshes[k].count = 0
    /\ DOMAIN resources.materials # {}
    /\ DOMAIN resources.framebuffers # {}

----------------------------------------------------------------------------
(* Handle resolution (draw-it/src/resource/mod.rs), driven next to the adds *)

\* HashMap::get(index).expect("bad index")
expect_get(map, index) ==
    IF index \in DOMAIN map
    THEN [ret |-> map[index].value, panic |-> FALSE]
    ELSE [ret |-> "bad index", panic |-> TRUE]

\* ResourceManager::material
material(self, index) == expect_get(self.materials, index)

\* ResourceManager::material_mut
material_mut(self, index) == expect_get(self.materials, index)

mesh_any_table(self, index) ==
    IF index \in DOMAIN self.meshes
    THEN expect_get(self.meshes, index)
    ELSE expect_get(self.materials, index)

\* ResourceManager::mesh
mesh(self, index) == expect_get(self.meshes, index)

\* ResourceManager::mesh_mut
mesh_mut(self, index) == expect_get(self.meshes, index)

\* ResourceManager::framebuffer
framebuffer(self, index) == expect_get(self.framebuffers, index)

\* ResourceManager::framebuffer_mut
framebuffer_mut(self, index) == expect_get(self.framebuffers, index)

\* the six accessors, each with the table it reads
Accessors ==
    [material |-> "materials", material_mut |-> "materials",
     mesh |-> "meshes", mesh_mut |-> "meshes",
     framebuffer |-> "framebuffers", framebuffer_mut |-> "framebuffers"]

resolve(accessor, self, index) ==
    CASE accessor = "material" -> material(self, index)
      [] accessor = "material_mut" -> material_mut(self, index)
      [] accessor = "mesh" -> mesh(self, index)
      [] accessor = "mesh_mut" -> mesh_mut(self, index)
      [] accessor = "framebuffer" -> framebuffer(self, index)
      [] accessor = "framebuffer_mut" -> framebuffer_mut(self, index)

\* an accessor called with an index: one returned by some add, or the next one, which none has returned
ResResolve ==
    /\ ~panicked
    /\ \E accessor \in DOMAIN Accessors : \E index \in 0..resources.next_index :
        LET r == resolve(accessor, resources, index)
        IN /\ op' = accessor
           /\ arg' = index
           /\ ret' = r.ret
           /\ panicked' = r.panic
    /\ removals' = <<>>
    /\ UNCHANGED <<uniform, resources, outsideResources>>

HandlesNext ==
    \/ ResAddMaterial
    \/ ResAddMesh
    \/ ResAddFramebuffer
    \/ ResDropHandle
    \/ ResCleanUnused
    \/ ResResolve

SpecHandles == Init /\ [][HandlesNext]_vars

\* the add operation of each table, with the value the model stores through it
AddOf ==
    [materials |-> "add_material", meshes |-> "add_mesh", framebuffers |-> "add_framebuffer"]

\* C11: the indices returned by add_material, add_mesh and add_framebuffer come
\* from the one counter next_index: together the three tables hold exactly the
\* indices 0 .. next_index - 1, no index is in two tables or was returned by two
\* adds, every returned index still has its entry, and the index an add has just
\* returned is the largest returned so far.
C11_SharedCounter ==
    LET keys == [kind \in MapKinds |-> DOMAIN resources[kind]]
    IN /\ \A k1, k2 \in MapKinds : k1 # k2 => keys[k1] \cap keys[k2] = {}
       /\ UNION {keys[kind] : kind \in MapKinds} = 0..(resources.next_index - 1)
       /\ \A kind \in MapKinds : issued[kind] = keys[kind]
       /\ \A kind \in MapKinds :
            op = AddOf[kind] =>
                /\ ret = resources.next_index - 1
                /\ ret \in keys[kind]
                /\ \A other \in MapKinds : \A index \in issued[other] : index <= ret

\* the three adds interleaved: a framebuffer index returned after a material and a mesh index
C11_Witness ==
    /\ op = "add_framebuffer"
    /\ ret = 2
    /\ issued.materials # {}
    /\ issued.meshes # {}

\* C12: an accessor (material, mesh, framebuffer and their _mut variants) panics
\* exactly when its index was not returned by the add of its own table, an index
\* returned for another table included, and otherwise returns the stored value.
C12_ResolvesExactlyIssued ==
    op \in DOMAIN Accessors =>
        /\ panicked <=> arg \notin issued[Accessors[op]]
        /\ ~panicked => ret = resources[Accessors[op]][arg].value

\* mesh called with an index that add_material returned, while a mesh exists
C12_Witness ==
    /\ op = "mesh"
    /\ panicked
    /\ arg \in issued.materials
    /\ issued.meshes # {}

----------------------------------------------------------------------------
(* The Target API driven directly, from Target::new *)

\* add_order calls in a run of the grouping operations
MaxOrders == 4
\* add_order calls in a run of the wireframe operations
MaxWireOrders == 2
\* Target operations in a run of the whole API
MaxTargetCalls == 3
\* lights added in a run of the light operations
MaxLights == 4
\* add_order calls in a run of the renderer
MaxRenderOrders == 2
MaxSamplerCalls == 5
MaxBucketCalls == 5

\* what the caller passes: ids of resources it created, texts, directions, colours
UserShaders == {"custom_shader"}
UserMaterials == {"material_a", "material_b", "material_c"}
UserTextures == {"texture_a"}
UserMeshes == {"mesh_a"}
TargetFramebuffers == {1}
Texts == {<<>>, <<"a">>, <<" ", "b">>}
Directions == {<<0, -1, 0>>, <<1, 0, 0>>}
LightColors == {<<255, 255, 255, 255>>, <<255, 0, 0, 255>>}

\* each drawn object is placed one unit further along x than the one before
NextTransform == Len(target.added) + 1

\* the bound a run is under
Within(budget) ==
    CASE budget = "orders" -> Len(target.added) < MaxOrders
      [] budget = "wireframes" -> Len(target.added) < MaxWireOrders
      [] budget = "calls" -> target_calls < MaxTargetCalls
      [] budget = "lights" -> Len(target.lights) < MaxLights
      [] budget = "render" -> Len(target.added) < MaxRenderOrders /\ device.commands = <<>>
      [] budget = "samplers" -> target_calls < MaxSamplerCalls
      [] budget = "buckets" -> target_calls < MaxBucketCalls

\* one call of a Target method that leaves the Target as result
TargetCall(budget, name, input, result, panic) ==
    /\ ~panicked
    /\ target' = result
    /\ target_calls' = IF budget \in {"calls", "samplers", "buckets"} THEN target_calls + 1 ELSE target_calls
    /\ op' = name
    /\ arg' = input
    /\ ret' = 0
    /\ panicked' = panic
    /\ UNCHANGED <<uniformVars, resourceVars, dukuVars, issued, deviceVars>>

TargetDraw(budget) ==
    /\ Within(budget)
    /\ \E m \in UserMeshes :
           TargetCall(budget, "draw", m, draw_mesh(target, m, NextTransform), FALSE)

TargetDrawCube(budget) ==
    /\ Within(budget)
    /\ TargetCall(budget, "draw_cube", NextTransform, draw_cube(target, NextTransform), FALSE)

TargetDrawSphere(budget) ==
    /\ Within(budget)
    /\ TargetCall(budget, "draw_sphere", NextTransform, draw_sphere(target, NextTransform), FALSE)

TargetDrawSurface(budget) ==
    /\ Within(budget)
    /\ TargetCall(budget, "draw_surface", 0, draw_surface(target), FALSE)

TargetBlitFramebuffer(budget) ==
    /\ Within(budget)
    /\ \E f \in TargetFramebuffers :
           TargetCall(budget, "blit_framebuffer", f, blit_framebuffer(target, f), FALSE)

TargetDrawText(budget) ==
    /\ Within(budget)
    /\ \E text \in Texts :
           LET r == draw_text(target, text, NextTransform)
           IN TargetCall(budget, "draw_text", text, r.self, r.panic)

TargetAddDirectionalLight(budget) ==
    /\ Within(budget)
    /\ \E direction \in Directions : \E color \in LightColors :
           TargetCall(budget, "add_directional_light", <<direction, color>>,
                      add_directional_light(target, direction, color), FALSE)

TargetSetClear(budget) ==
    /\ Within(budget)
    /\ TargetCall(budget, "set_clear", "black", set_clear(target, "black"), FALSE)

TargetSetMaterial(budget) ==
    /\ Within(budget)
    /\ \E m \in UserMaterials :
           TargetCall(budget, "set_material", m, set_material(target, m), FALSE)

TargetSetAlbedoTexture(budget) ==
    /\ Within(budget)
    /\ \E texture \in UserTextures :
           TargetCall(budget, "set_albedo_texture", texture, set_albedo_texture(target, texture), FALSE)

TargetSetShader(budget) ==
    /\ Within(budget)
    /\ \E shader \in UserShaders :
           TargetCall(budget, "set_shader", shader, set_shader(target, shader), FALSE)

TargetSetFramebuffer(budget) ==
    /\ Within(budget)
    /\ \E f \in TargetFramebuffers :
           TargetCall(budget, "set_framebuffer", f, set_framebuffer(target, f), FALSE)

TargetEnableWireframes(budget) ==
    /\ Within(budget)
    /\ TargetCall(budget, "enable_wireframes", 0, enable_wireframes(target), FALSE)

TargetSetWireframes(budget) ==
    /\ Within(budget)
    /\ \E enable \in BOOLEAN :
           TargetCall(budget, "set_wireframes", enable, set_wireframes(target, enable), FALSE)

TargetEnableSamplerNearest(budget) ==
    /\ Within(budget)
    /\ TargetCall(budget, "enable_sampler_nearest", 0, enable_sampler_nearest(target), FALSE)

TargetEnableSamplerClamp(budget) ==
    /\ Within(budget)
    /\ TargetCall(budget, "enable_sampler_clamp", 0, enable_sampler_clamp(target), FALSE)

TargetEnableSamplerNoMipmaps(budget) ==
    /\ Within(budget)
    /\ TargetCall(budget, "enable_sampler_no_mipmaps", 0, enable_sampler_no_mipmaps(target), FALSE)

TargetSetBias(budget) ==
    /\ Within(budget)
    /\ TargetCall(budget, "set_bias", 0, set_bias(target, 0), FALSE)

TargetReset(budget) ==
    /\ Within(budget)
    /\ TargetCall(budget, "reset", 0, reset(target), FALSE)

\* the renderer reads the lights; the Target is left as it is
TargetLights ==
    /\ ~panicked
    /\ LET r == lights(target)
       IN /\ ret' = r.ret
          /\ panicked' = r.panic
    /\ op' = "lights"
    /\ arg' = 0
    /\ UNCHANGED <<uniformVars, resourceVars, dukuVars, issued, targetVars, deviceVars>>

\* grouping: shaders and materials change between draws
GroupingNext ==
    \/ TargetSetShader("orders")
    \/ TargetSetMaterial("orders")
    \/ TargetDrawCube("orders")
    \/ TargetReset("orders")

SpecGrouping == Init /\ [][GroupingNext]_vars

\* wireframe mode switched between draws
WireframesNext ==
    \/ TargetSetShader("wireframes")
    \/ TargetSetMaterial("wireframes")
    \/ TargetEnableWireframes("wireframes")
    \/ TargetSetWireframes("wireframes")
    \/ TargetDrawCube("wireframes")

SpecWireframes == Init /\ [][WireframesNext]_vars

\* every operation of the Target
TargetNext ==
    \/ TargetDraw("calls")
    \/ TargetDrawCube("calls")
    \/ TargetDrawSphere("calls")
    \/ TargetDrawSurface("calls")
    \/ TargetBlitFramebuffer("calls")
    \/ TargetDrawText("calls")
    \/ TargetAddDirectionalLight("calls")
    \/ TargetSetClear("calls")
    \/ TargetSetMaterial("calls")
    \/ TargetSetAlbedoTexture("calls")
    \/ TargetSetShader("calls")
    \/ TargetSetFramebuffer("calls")
    \/ TargetEnableWireframes("calls")
    \/ TargetSetWireframes("calls")
    \/ TargetEnableSamplerNearest("calls")
    \/ TargetEnableSamplerClamp("calls")
    \/ TargetEnableSamplerNoMipmaps("calls")
    \/ TargetSetBias("calls")
    \/ TargetReset("calls")
    \/ TargetLights

SpecTarget == Init /\ [][TargetNext]_vars

\* lights added and read
LightsNext ==
    \/ TargetAddDirectionalLight("lights")
    \/ TargetLights

SpecLights == Init /\ [][LightsNext]_vars

----------------------------------------------------------------------------
(* Claims about the collected orders *)

\* the places of the stored orders: <<shader bucket, material bucket, place in it>>
Entries(orders_by_shader) ==
    UNION {UNION {{<<s, m, k>> : k \in 1..Len(orders_by_shader[s].orders_by_material[m].orders)} :
                  m \in 1..Len(orders_by_shader[s].orders_by_material)} :
           s \in 1..Len(orders_by_shader)}

\* the ids an entry is stored under, and its order
EntryAt(orders_by_shader, e) ==
    [shader |-> orders_by_shader[e[1]].shader,
     material |-> orders_by_shader[e[1]].orders_by_material[e[2]].material,
     order |-> orders_by_shader[e[1]].orders_by_material[e[2]].orders[e[3]]]

\* the entries a step has added outside the wireframe bucket
NewGrouped ==
    {e \in Entries(target'.orders_by_shader) \ Entries(target.orders_by_shader) :
        target'.orders_by_shader[e[1]].shader # builtins.wireframe_shader}

\* the orders handed to add_order during a step
NewOrders ==
    {target'.added[n].order : n \in (Len(target.added) + 1)..Len(target'.added)}

\* the shader a draw method has installed when it calls add_order
StoringShader(method, current_shader) ==
    CASE method = "draw_text" -> builtins.font_shader
      [] method = "blit_framebuffer" -> builtins.blit_shader
      [] OTHER -> current_shader

\* C13 (as stated): every order is stored in the shader bucket equal to
\* current_shader and the material bucket equal to current_material as they
\* were when its draw method was called.
C13_StoredUnderCallersShader ==
    [][\A e \in NewGrouped :
            /\ EntryAt(target'.orders_by_shader, e).shader = target.current_shader
            /\ EntryAt(target'.orders_by_shader, e).material = target.current_material]_vars

\* C13 (amended): a step stores each order it hands to add_order once outside
\* the wireframe bucket, under current_material as it was at the call and under
\* the shader in force when add_order runs: current_shader for draw, draw_cube,
\* draw_sphere and draw_surface, the font shader for draw_text, the blit shader
\* for blit_framebuffer. No stored order moves, and with wireframe mode never on
\* the number of stored orders is the number of add_order calls.
C13_StoredUnderShaderInForce ==
    [][/\ Entries(target.orders_by_shader) \subseteq Entries(target'.orders_by_shader)
       /\ \A e \in Entries(target.orders_by_shader) :
            EntryAt(target'.orders_by_shader, e) = EntryAt(target.orders_by_shader, e)
       /\ Cardinality(NewGrouped) = Len(target'.added) - Len(target.added)
       /\ \A e \in NewGrouped :
            /\ EntryAt(target'.orders_by_shader, e).shader
                    = StoringShader(op', target.current_shader)
            /\ EntryAt(target'.orders_by_shader, e).material = target.current_material
            /\ EntryAt(target'.orders_by_shader, e).order \in NewOrders
       /\ (\A n \in 1..Len(target'.added) : ~target'.added[n].wireframes) =>
            Cardinality(Entries(target'.orders_by_shader)) = Len(target'.added)]_vars

\* draw_text called under a custom shader and material: its order lies in the
\* bucket of the font shader, under that material
C13_Witness ==
    /\ op = "draw_text"
    /\ target.current_shader \in UserShaders
    /\ \E e \in Entries(target.orders_by_shader) :
        /\ EntryAt(target.orders_by_shader, e).shader = builtins.font_shader
        /\ EntryAt(target.orders_by_shader, e).material \in UserMaterials

\* a sequence without the repetitions of its elements: each stays at its first place
RECURSIVE FirstOccurrences(_)
FirstOccurrences(seq) ==
    IF seq = <<>> THEN <<>>
    ELSE LET front == FirstOccurrences(SubSeq(seq, 1, Len(seq) - 1))
             last == seq[Len(seq)]
         IN IF \E n \in 1..Len(front) : front[n] = last THEN front ELSE Append(front, last)

\* C14: the buckets are the add_order calls grouped with no sorting: the shader
\* buckets are the shaders drawn under in order of first occurrence, the
\* material buckets of a shader are the materials drawn under with that shader
\* in order of first occurrence, and a material bucket holds its orders in the
\* order they were drawn.
C14_InsertionStable ==
    LET log == target.added
        buckets == target.orders_by_shader
    IN /\ [s \in 1..Len(buckets) |-> buckets[s].shader]
            = FirstOccurrences([n \in 1..Len(log) |-> log[n].shader])
       /\ \A s \in 1..Len(buckets) :
            LET WithShader(a) == a.shader = buckets[s].shader
                drawn == SelectSeq(log, WithShader)
                by_material == buckets[s].orders_by_material
            IN /\ [m \in 1..Len(by_material) |-> by_material[m].material]
                    = FirstOccurrences([n \in 1..Len(drawn) |-> drawn[n].material])
               /\ \A m \in 1..Len(by_material) :
                    LET WithMaterial(a) == a.material = by_material[m].material
                        stored == SelectSeq(drawn, WithMaterial)
                    IN by_material[m].orders = [n \in 1..Len(stored) |-> stored[n].order]

\* draw_cube under materials a, b, c and a again: one shader bucket, material
\* buckets a, b, c, and a holds the first and the fourth order in that order
C14_Witness ==
    /\ Len(target.orders_by_shader) = 1
    /\ Len(target.added) = 4
    /\ LET by_material == target.orders_by_shader[1].orders_by_material
       IN /\ [m \in 1..Len(by_material) |-> by_material[m].material]
                = <<"material_a", "material_b", "material_c">>
          /\ by_material[1].orders = <<target.added[1].order, target.added[4].order>>
          /\ target.added[1].order # target.added[4].order

\* the draw methods whose order casts shadows
ShadowCasting == {"draw", "draw_cube", "draw_sphere"}

\* C15: has_shadows is false on a new Target, and after every operation it is
\* true exactly when it was true before or the operation was draw, draw_cube or
\* draw_sphere: draw_surface, draw_text, blit_framebuffer, the setters and
\* reset neither set nor clear it.
C15_HasShadowsSticky ==
    /\ target.has_shadows = FALSE
    /\ [][target'.has_shadows <=> (target.has_shadows \/ op' \in ShadowCasting)]_vars

\* reset called after a shadow-casting draw: the flag is still set
C15_Witness ==
    /\ op = "reset"
    /\ target.has_shadows
    /\ \E n \in 1..Len(target.added) : target.added[n].order.has_shadows

\* the orders of the wireframe shader's bucket, sub-bucket after sub-bucket
WireframeOrders(orders_by_shader) ==
    LET s == CHOOSE s \in 0..Len(orders_by_shader) :
                \/ s # 0 /\ orders_by_shader[s].shader = builtins.wireframe_shader
                \/ s = 0 /\ \A n \in 1..Len(orders_by_shader) :
                                orders_by_shader[n].shader # builtins.wireframe_shader
        by_material == IF s = 0 THEN <<>> ELSE orders_by_shader[s].orders_by_material
        flat[m \in 0..Len(by_material)] ==
            IF m = 0 THEN <<>> ELSE flat[m - 1] \o by_material[m].orders
    IN flat[Len(by_material)]

\* the buckets of the wireframe shader
WireframeBuckets(orders_by_shader) ==
    {s \in 1..Len(orders_by_shader) : orders_by_shader[s].shader = builtins.wireframe_shader}

\* C16: an add_order made while wireframe mode is on appends, besides its entry
\* in the bucket of the current shader, one copy of the order at the end of the
\* wireframe shader's bucket, which is created on first use with the white
\* material as its only sub-bucket; an add_order made while wireframe mode is off
\* leaves the wireframe bucket as it was, absent if it was absent.
C16_WireframeDuplication ==
    [][Len(target'.added) = Len(target.added) + 1 =>
        LET order == target'.added[Len(target'.added)].order
            before == target.orders_by_shader
            after == target'.orders_by_shader
        IN /\ Cardinality(NewGrouped) = 1
           /\ target.wireframes =>
                /\ Cardinality(WireframeBuckets(after)) = 1
                /\ WireframeOrders(after) = Append(WireframeOrders(before), order)
                /\ \A s \in WireframeBuckets(after) :
                    /\ Len(after[s].orders_by_material) = 1
                    /\ after[s].orders_by_material[1].material = builtins.white_material
           /\ ~target.wireframes =>
                /\ WireframeBuckets(after) = WireframeBuckets(before)
                /\ WireframeOrders(after) = WireframeOrders(before)]_vars

\* two draws in wireframe mode under a custom material: the wireframe bucket,
\* created by the first, holds a copy of both under the white material
C16_Witness ==
    /\ op = "draw_cube"
    /\ target.wireframes
    /\ target.current_material \in UserMaterials
    /\ Len(WireframeOrders(target.orders_by_shader)) = 2
    /\ WireframeOrders(target.orders_by_shader)
            = <<target.added[1].order, target.added[2].order>>

\* the state setters of the Target
Setters ==
    {"set_shader", "set_material", "set_albedo_texture", "set_framebuffer",
     "enable_sampler_nearest", "enable_sampler_clamp", "enable_sampler_no_mipmaps",
     "enable_wireframes", "set_wireframes", "set_bias"}

\* C17: a state setter leaves the buckets and every collected order (mesh,
\* albedo, framebuffer, model, shadow flag, sampler index) as they were, as well
\* as has_shadows; what it sets reaches only the orders of later draws: an order
\* built by draw, draw_cube, draw_sphere or draw_surface carries the albedo, the
\* framebuffer and the sampler index current when it is drawn.
C17_SettersNotRetroactive ==
    [][/\ op' \in Setters =>
            /\ target'.orders_by_shader = target.orders_by_shader
            /\ target'.added = target.added
            /\ target'.has_shadows = target.has_shadows
       /\ op' \in {"draw", "draw_cube", "draw_sphere", "draw_surface"} =>
            /\ Len(target'.added) = Len(target.added) + 1
            /\ LET order == target'.added[Len(target'.added)].order
               IN /\ order.albedo = target.current_albedo
                  /\ order.framebuffer = target.current_framebuffer
                  /\ order.sampler_index = sampler_combination(target)
                  /\ \E e \in NewGrouped : EntryAt(target'.orders_by_shader, e).order = order]_vars

\* set_albedo_texture called after a draw: the collected order keeps the white
\* texture while the current albedo is the caller's texture
C17_Witness ==
    /\ op = "set_albedo_texture"
    /\ target.current_albedo \in UserTextures
    /\ \E e \in Entries(target.orders_by_shader) :
        EntryAt(target.orders_by_shader, e).order.albedo = builtins.white_texture

\* C18: reset sets the current shader, material and albedo texture to the phong
\* shader, the white material and the white texture, clears the framebuffer
\* override and the three sampler flags, and leaves the buckets and their orders
\* exactly as they were.
C18_ResetRestoresDefaults ==
    [][op' = "reset" =>
        /\ target'.current_shader = builtins.phong_shader
        /\ target'.current_material = builtins.white_material
        /\ target'.current_albedo = builtins.white_texture
        /\ IsNone(target'.current_framebuffer)
        /\ ~target'.sampler_nearest
        /\ ~target'.sampler_clamp
        /\ ~target'.sampler_no_mipmaps
        /\ sampler_combination(target') = 0
        /\ target'.orders_by_shader = target.orders_by_shader
        /\ target'.added = target.added]_vars

\* reset called after a draw under a custom material: the order is still in the
\* bucket of that material and the current material is the white one again
C18_Witness ==
    /\ op = "reset"
    /\ target.current_material = builtins.white_material
    /\ \E e \in Entries(target.orders_by_shader) :
        EntryAt(target.orders_by_shader, e).material \in UserMaterials

\* C19: lights() returns LightSlots slots whatever the number of lights added:
\* slot i holds the i-th light added when there is one and a default light
\* otherwise, and the lights after the third are dropped without a failure.
C19_LightsDropsExcess ==
    op = "lights" =>
        /\ ~panicked
        /\ Len(ret) = LightSlots
        /\ \A i \in 1..LightSlots :
            ret[i] = IF i <= Len(target.lights) THEN target.lights[i] ELSE LightDefault

\* the last Duku operation made the call named
Called(name) == \E n \in 1..Len(calls) : calls[n] = name

\* C20 (as stated): every draw call that returns, Duku::draw as well as
\* Duku::draw_on_window, leaves the render stage at Before.
C20_EveryDrawEndsFrame ==
    (op \in {"draw", "draw_on_window"} /\ ~panicked) => render_stage = "Before"

\* C20 (amended): the render stage of a Duku that was built starts at Before;
\* a draw call begins a frame exactly when the stage is Before; draw_on_window
\* ends the frame once it has rendered, submitting it and setting the stage
\* to Before, also when end_draw panics after that; Duku::draw leaves the
\* stage at During, so the frame it began or continued stays open until a
\* draw_on_window; no other operation changes the stage. A frame is therefore
\* begun only when the one before it has been ended.
C20_FrameStateMachine ==
    /\ (~panicked /\ ret # Err) => render_stage = "Before"
    /\ [][/\ op' \in {"draw", "draw_on_window"} =>
                /\ Called("next_frame")' <=> render_stage = "Before"
                /\ Called("submit")' <=> (op' = "draw_on_window" /\ Called("render")')
          /\ (op' = "draw" /\ ~panicked') => render_stage' = "During"
          /\ (op' = "draw_on_window" /\ Called("submit")') => render_stage' = "Before"
          /\ op' \notin {"draw", "draw_on_window"} => render_stage' = render_stage]_vars

\* a frame begun by Duku::draw and left open is ended by draw_on_window, which
\* does not begin another
C20_Witness ==
    /\ op = "draw_on_window"
    /\ ~panicked
    /\ render_stage = "Before"
    /\ ~Called("next_frame")
    /\ Called("submit")

----------------------------------------------------------------------------
(* The renderer driven: a Target is filled, ForwardRenderer::draw renders   *)
(* it into the window framebuffer, the device moves to the next frame       *)

\* the one resource whose use fails in a draw, "none" when every use succeeds
Breakable ==
    {"none", builtins.cube_mesh, builtins.surface_mesh, index_buffer(builtins.cube_mesh),
     index_buffer(builtins.surface_mesh), builtins.white_material, "material_a",
     "world_uniform", "shadow_world_uniform"}

\* the shadow framebuffers a render pass is begun on in a recording
ShadowWrites(commands) ==
    {commands[k].framebuffer : k \in {j \in DOMAIN commands :
        /\ commands[j].cmd = "begin_render_pass"
        /\ commands[j].framebuffer.kind = "shadow"}}

\* ForwardRenderer::draw; the Target is moved into the draw, the next one is
\* a Target::new
RendererDraw ==
    /\ ~panicked
    /\ \E broken \in Breakable :
           LET r == forward_renderer_draw(ForwardRendererNew, device.current_frame,
                                          target, Window, broken)
           IN /\ device' = [device EXCEPT !.commands = r.commands]
              /\ ret' = r.ret
              /\ panicked' = r.panic
              /\ arg' = [target |-> target, broken |-> broken,
                         frame |-> device.current_frame]
    /\ op' = "render"
    /\ target' = TargetNew
    /\ UNCHANGED <<uniformVars, resourceVars, dukuVars, issued, target_calls, buffer, groups,
                   hostVars>>

DeviceNextFrame ==
    /\ ~panicked
    /\ device' = next_frame(device)
    /\ op' = "next_frame"
    /\ arg' = 0
    /\ ret' = 0
    /\ UNCHANGED <<uniformVars, resourceVars, dukuVars, issued, targetVars, buffer, groups,
                   hostVars, panicked>>

RendererNext ==
    \/ TargetDrawCube("render")
    \/ TargetDrawSurface("render")
    \/ TargetBlitFramebuffer("render")
    \/ TargetSetMaterial("render")
    \/ TargetReset("render")
    \/ RendererDraw
    \/ DeviceNextFrame

SpecRenderer == Init /\ [][RendererNext]_vars

----------------------------------------------------------------------------
(* Claims about ForwardRenderer::draw.  After a draw, arg holds the Target  *)
(* that was rendered, the frame and the broken resource; device.commands   *)
(* holds what the draw recorded.                                           *)

Rendered == op = "render"

\* the positions in the recording of the calls of one name
Recorded(name) == {k \in DOMAIN device.commands : device.commands[k].cmd = name}

\* the shadow-map descriptors of the renderer, one per frame in flight
ShadowMapDescriptors ==
    {descriptor(ForwardRendererNew.shadow_uniforms[f]) : f \in 0..(IN_FLIGHT_FRAME_COUNT - 1)}

BindsShadowMap(k) ==
    /\ device.commands[k].cmd = "bind_descriptor"
    /\ device.commands[k].descriptor.set = 3
    /\ device.commands[k].descriptor \in ShadowMapDescriptors

\* the orders a Target holds, in bucket traversal order
RECURSIVE Flatten(_)
Flatten(seqs) == IF seqs = <<>> THEN <<>> ELSE Head(seqs) \o Flatten(Tail(seqs))

OrdersOfShader(s_order) ==
    Flatten([m \in DOMAIN s_order.orders_by_material |-> s_order.orders_by_material[m].orders])

OrdersOf(self) ==
    Flatten([s \in DOMAIN self.orders_by_shader |-> OrdersOfShader(self.orders_by_shader[s])])

\* the shadow-casting orders of a Target, in bucket traversal order
ShadowCasters(self) == SelectSeq(OrdersOf(self), LAMBDA order : order.has_shadows)

\* C21: when the rendered Target holds no shadow-casting order and so requests
\* no shadow mapping, the draw begins no render pass on a shadow framebuffer,
\* binds no shadow-map descriptor, writes no shadow framebuffer's world
\* uniform, and the world uniform of the colour pass gets four identity light
\* matrices and four zero cascade splits.
C21_ShadowPassSkipped ==
    (Rendered /\ ShadowCasters(arg.target) = <<>>) =>
        /\ \A k \in Recorded("begin_render_pass") :
               device.commands[k].framebuffer.kind # "shadow"
        /\ \A k \in DOMAIN device.commands : ~BindsShadowMap(k)
        /\ \A k \in Recorded("world_uniform_update") :
               /\ device.commands[k].framebuffer = Window
               /\ device.commands[k].data.light_matrices =
                      <<Identity, Identity, Identity, Identity>>
               /\ device.commands[k].data.cascade_splits = <<0, 0, 0, 0>>
        /\ ret.ok => Cardinality(Recorded("world_uniform_update")) = 1

\* a Target with orders, none of them shadow casting, was rendered to the end
C21_Witness ==
    /\ Rendered
    /\ ShadowCasters(arg.target) = <<>>
    /\ ~do_shadow_mapping(arg.target)
    /\ ret.ok
    /\ Cardinality(Recorded("draw")) = 2

\* a is the beginning of b
IsPrefix(a, b) == Len(a) <= Len(b) /\ SubSeq(b, 1, Len(a)) = a

\* the position where the render pass begun at position k ends: the first
\* end_render_pass after k, or past the recording when draw returned before it
PassEnd(k) ==
    LET ends == {j \in Recorded("end_render_pass") : j > k}
    IN IF ends = {} THEN Len(device.commands) + 1
       ELSE CHOOSE j \in ends : \A e \in ends : j <= e

\* the calls of one name recorded inside the render pass begun at position k
InPass(k, name) ==
    SelectSeq(SubSeq(device.commands, k + 1, PassEnd(k) - 1), LAMBDA c : c.cmd = name)

\* what identifies a draw: the mesh and the model matrix of its order
DrawsInPass(k) ==
    LET draws == InPass(k, "draw")
    IN [d \in DOMAIN draws |-> <<draws[d].mesh, draws[d].model_matrix>>]

DrawsOf(orders) == [d \in DOMAIN orders |-> <<orders[d].mesh, orders[d].model>>]

\* the positions where a render pass on a shadow framebuffer begins
ShadowPasses ==
    {k \in Recorded("begin_render_pass") : device.commands[k].framebuffer.kind = "shadow"}

\* C22: in every shadow cascade pass of a draw the draws issued are those of
\* the Target's shadow-casting orders, each once and in bucket traversal order
\* (all of them when the draw returns Ok, the first of them when it returns an
\* Err midway), no other order is drawn, the one shader bound in the pass is
\* the shadow shader, a finished draw has rendered every cascade, and a render
\* pass is ended before the next one begins.
C22_ShadowPassDrawsCasters ==
    Rendered =>
        /\ \A k \in ShadowPasses :
               /\ IsPrefix(DrawsInPass(k), DrawsOf(ShadowCasters(arg.target)))
               /\ PassEnd(k) <= Len(device.commands) =>
                      DrawsInPass(k) = DrawsOf(ShadowCasters(arg.target))
               /\ LET shaders == InPass(k, "bind_shader")
                  IN /\ Len(shaders) = 1
                     /\ shaders[1].shader = ForwardRendererNew.shadow_shader
        /\ (ret.ok /\ ShadowCasters(arg.target) # <<>>) =>
               {device.commands[k].framebuffer.cascade : k \in ShadowPasses}
                   = 0..(CASCADE_COUNT - 1)
        /\ \A k \in Recorded("begin_render_pass") :
               \A later \in Recorded("begin_render_pass") :
                   later > k => PassEnd(k) < later
        /\ ret.ok => \A k \in Recorded("begin_render_pass") : PassEnd(k) <= Len(device.commands)

\* a finished draw of a Target holding a shadow caster and an order that casts
\* no shadow
C22_Witness ==
    /\ Rendered
    /\ ret.ok
    /\ Len(ShadowCasters(arg.target)) = 1
    /\ Len(OrdersOf(arg.target)) = 2
    /\ Cardinality(ShadowPasses) = CASCADE_COUNT

\* the position where the colour pass begins, 0 when the draw did not get there
ColourPass ==
    LET begun == {k \in Recorded("begin_render_pass") :
                      device.commands[k].framebuffer.kind = "colour"}
    IN IF begun = {} THEN 0 ELSE CHOOSE k \in begun : TRUE

\* a shader bind, a material bind or a draw
IsBinding(c) ==
    \/ c.cmd = "bind_shader"
    \/ c.cmd = "draw"
    \/ c.cmd = "bind_descriptor" /\ c.descriptor.set = 1

Binding(c) ==
    CASE c.cmd = "bind_shader" -> <<"shader", c.shader, 0>>
      [] c.cmd = "draw" -> <<"draw", c.mesh, c.model_matrix>>
      [] OTHER -> <<"material", c.descriptor.handle[2], 0>>

\* the shader binds, material binds and draws of the colour pass, in order
ColourBindings ==
    IF ColourPass = 0 THEN <<>>
    ELSE LET bindings == SelectSeq(SubSeq(device.commands, ColourPass + 1,
                                          PassEnd(ColourPass) - 1), IsBinding)
         IN [b \in DOMAIN bindings |-> Binding(bindings[b])]

\* what the buckets of a Target call for: per shader bucket the shader, then
\* per material bucket the material, then one draw per order
MaterialBindings(m_order) ==
    <<<<"material", m_order.material, 0>>>> \o
    [d \in DOMAIN m_order.orders |-> <<"draw", m_order.orders[d].mesh, m_order.orders[d].model>>]

ShaderBindings(s_order) ==
    <<<<"shader", s_order.shader, 0>>>> \o
    Flatten([m \in DOMAIN s_order.orders_by_material |->
                 MaterialBindings(s_order.orders_by_material[m])])

TargetBindings(self) ==
    Flatten([s \in DOMAIN self.orders_by_shader |-> ShaderBindings(self.orders_by_shader[s])])

\* the number of material buckets of a Target
MaterialBuckets(self) ==
    Len(Flatten([s \in DOMAIN self.orders_by_shader |->
                     self.orders_by_shader[s].orders_by_material]))

\* the number of calls of one name in the colour pass
InColourPass(name) == IF ColourPass = 0 THEN 0 ELSE Len(InPass(ColourPass, name))

\* C23: the shader binds, material binds and draws recorded in the colour pass
\* follow the buckets of the Target: each shader bucket's shader once, then
\* each of its material buckets' material once, then one indexed draw per
\* order of that bucket, each draw after the vertex and index buffers of its
\* mesh.  A draw that returns Ok has recorded all of them, so that the binds
\* and draws recorded, and the counts it returns, are the numbers of shader
\* buckets, material buckets and orders; a draw that returns an Err has
\* recorded the first of them.
C23_ColourPassBindingOrder ==
    Rendered =>
        /\ IsPrefix(ColourBindings, TargetBindings(arg.target))
        /\ \A k \in Recorded("draw") :
               /\ k > 2
               /\ device.commands[k - 2].cmd = "bind_vertex_buffer"
               /\ device.commands[k - 1].cmd = "bind_index_buffer"
               /\ device.commands[k - 1].mesh = device.commands[k].mesh
        /\ ret.ok =>
               /\ ColourBindings = TargetBindings(arg.target)
               /\ InColourPass("bind_shader") = Len(arg.target.orders_by_shader)
               /\ InColourPass("draw") = Len(OrdersOf(arg.target))
               /\ ret.shaders_used = Len(arg.target.orders_by_shader)
               /\ ret.materials_used = MaterialBuckets(arg.target)
               /\ ret.draw_calls = Len(OrdersOf(arg.target))

\* a finished draw of one shader bucket that holds two material buckets with
\* an order each
C23_Witness ==
    /\ Rendered
    /\ ret.ok
    /\ ret.draw_calls = 2
    /\ ret.materials_used = 2
    /\ ret.shaders_used = 1

\* the orders of a Target whose mesh is the broken resource, and the others
BrokenOrders(self, broken) == SelectSeq(OrdersOf(self), LAMBDA order : order.mesh = broken)
SoundOrders(self, broken) == SelectSeq(OrdersOf(self), LAMBDA order : order.mesh # broken)

\* C24: when the mesh of an order cannot be resolved to its buffers, only that
\* order is skipped: nothing is recorded for it, every other order is drawn in
\* the colour pass, every render pass is ended and draw returns Ok.
C24_FailedOrderSkipped ==
    (Rendered /\ BrokenOrders(arg.target, arg.broken) # <<>>) =>
        /\ ret.ok
        /\ \A k \in Recorded("begin_render_pass") : PassEnd(k) <= Len(device.commands)
        /\ \A k \in Recorded("push_constants") :
               \A n \in DOMAIN BrokenOrders(arg.target, arg.broken) :
                   device.commands[k].model_matrix # BrokenOrders(arg.target, arg.broken)[n].model
        /\ ColourPass # 0
        /\ DrawsInPass(ColourPass) = DrawsOf(SoundOrders(arg.target, arg.broken))

\* the shadow framebuffers of a frame in flight
FramebuffersOf(frame) ==
    {ForwardRendererNew.shadow_framebuffers[frame][i] : i \in 0..(CASCADE_COUNT - 1)}

\* the framebuffers a shadow-map descriptor samples
SampledBy(shadow_descriptor) ==
    {shadow_descriptor.handle[2][v] : v \in DOMAIN shadow_descriptor.handle[2]}

\* the shadow-map descriptor in force at position k: the last one bound before
BoundShadowMap(k) ==
    LET binds == {j \in DOMAIN device.commands : j < k /\ BindsShadowMap(j)}
    IN device.commands[CHOOSE j \in binds : \A b \in binds : b <= j].descriptor

\* what a draw in frame arg.frame does with the per-frame shadow resources
ShadowResourcesIsolated ==
    Rendered =>
        /\ \A k \in ShadowPasses :
               /\ device.commands[k].framebuffer \in FramebuffersOf(arg.frame)
               /\ \E j \in DOMAIN device.commands : j < k /\ BindsShadowMap(j)
               /\ BoundShadowMap(k) =
                      descriptor(ForwardRendererNew.shadow_uniforms[
                          (arg.frame + 1) % IN_FLIGHT_FRAME_COUNT])
               /\ device.commands[k].framebuffer \notin SampledBy(BoundShadowMap(k))
        /\ (ColourPass # 0 /\ ShadowPasses # {}) =>
               BoundShadowMap(ColourPass) =
                   descriptor(ForwardRendererNew.shadow_uniforms[arg.frame])

\* the frame that follows uses the next set of shadow framebuffers, which
\* shares no framebuffer with the set of the frame before
NextFrameOtherFramebuffers ==
    device'.current_frame # device.current_frame =>
        /\ device'.current_frame = (device.current_frame + 1) % IN_FLIGHT_FRAME_COUNT
        /\ FramebuffersOf(device'.current_frame) \cap FramebuffersOf(device.current_frame) = {}

\* C25: a draw in frame f begins shadow passes on the framebuffers of frame f
\* only; while it renders them the shadow-map descriptor bound is that of
\* frame (f + 1) mod IN_FLIGHT_FRAME_COUNT, which does not sample the
\* framebuffer being written; once the cascades are done frame f's own
\* descriptor is bound before the colour pass; and the frame after f writes
\* none of the shadow framebuffers of f.
C25_FramesInFlightIsolation ==
    /\ []ShadowResourcesIsolated
    /\ [][NextFrameOtherFramebuffers]_vars

\* a finished draw with shadow mapping in the second frame in flight
C25_Witness ==
    /\ Rendered
    /\ ret.ok
    /\ arg.frame = 1
    /\ Cardinality(ShadowPasses) = CASCADE_COUNT
    /\ ColourPass # 0

----------------------------------------------------------------------------
(* The texel snap of the cascade loop (forward_renderer.rs 143-156).        *)
(* Clip-space x and y are fixed-point numbers: the integer n stands for    *)
(* n / SnapUnit, with SubTexels units to the texel once scaled by          *)
(* shadow_map_size / 2.  The scalings by shadow_map_size / 2 and by        *)
(* 2 / shadow_map_size are powers of two and exact in f32.                 *)

\* units to the texel
SubTexels == 4

\* shadow_map_size as f32 / 2.0
HalfSize == ShadowMapSize \div 2

\* the integer that stands for 1.0
SnapUnit == SubTexels * HalfSize

\* the world origin lies up to MaxSubTexel units from the centre of the map
MaxSubTexel == 6

\* f32::round of n / SnapUnit: to the nearest whole number, halves away from zero
round(n) ==
    IF n >= 0 THEN ((2 * n + SnapUnit) \div (2 * SnapUnit)) * SnapUnit
    ELSE -(((2 * (-n) + SnapUnit) \div (2 * SnapUnit)) * SnapUnit)

\* one coordinate of the snap: col_w is the translation of light_ortho_matrix,
\* viewed the world origin under light_view_matrix scaled by the projection,
\* so that shadow_matrix maps the origin to viewed + col_w
snap_coordinate(col_w, viewed) ==
    LET shadow_origin == (viewed + col_w) * HalfSize
        rounded_origin == round(shadow_origin)
        round_offset == (rounded_origin - shadow_origin) \div HalfSize
    IN [col_w |-> col_w + round_offset, round_offset |-> round_offset]

\* a snap that adds the offset in texels, not scaled back by 2 / shadow_map_size
texel_snap_unscaled(light_ortho, viewed) ==
    LET x == (viewed[1] + light_ortho.col_w[1]) * HalfSize
        y == (viewed[2] + light_ortho.col_w[2]) * HalfSize
    IN [col_w |-> <<light_ortho.col_w[1] + (round(x) - x), light_ortho.col_w[2] + (round(y) - y)>>,
        round_offset |-> <<round(x) - x, round(y) - y>>,
        before |-> light_ortho.col_w,
        snaps |-> light_ortho.snaps + 1]

\* the snap of light_ortho_matrix: col_w.x and col_w.y move by the round
\* offset; before and snaps note the translation before this snap and the
\* number of snaps applied
texel_snap(light_ortho, viewed) ==
    LET x == snap_coordinate(light_ortho.col_w[1], viewed[1])
        y == snap_coordinate(light_ortho.col_w[2], viewed[2])
    IN [col_w |-> <<x.col_w, y.col_w>>,
        round_offset |-> <<x.round_offset, y.round_offset>>,
        before |-> light_ortho.col_w,
        snaps |-> light_ortho.snaps + 1]

\* Matrix4::orthographic_center: a projection centred on the view axis
OrthographicCenter == [col_w |-> <<0, 0>>, round_offset |-> <<0, 0>>, before |-> <<0, 0>>, snaps |-> 0]

\* how often the snap is applied to one matrix
MaxSnaps == 2

\* a cascade's light matrices before the snap: arg is where light_view_matrix
\* and the projection's scale put the world origin, ret is light_ortho_matrix
SnapInit ==
    /\ uniform = ImageUniformNew
    /\ updates = <<>>
    /\ resources = ResourceManagerNew
    /\ removals = <<>>
    /\ render_stage = "Before"
    /\ calls = <<>>
    /\ render_unflushed = FALSE
    /\ duku = DukuFieldsNew(0)
    /\ op = "orthographic_center"
    /\ arg \in (-MaxSubTexel..MaxSubTexel) \X (-MaxSubTexel..MaxSubTexel)
    /\ ret = OrthographicCenter
    /\ panicked = FALSE
    /\ issued = IssuedNew
    /\ target = TargetNew
    /\ target_calls = 0
    /\ device = DeviceNew(TRUE)
    /\ buffer = dynamic("Uniform", 1, 1)
    /\ groups = GroupsNew
    /\ frame_calls = <<>>
    /\ heap = HeapNew
    /\ user_mesh = MeshNew

TexelSnap ==
    /\ ret.snaps < MaxSnaps
    /\ ret' = texel_snap(ret, arg)
    /\ op' = "texel_snap"
    /\ UNCHANGED <<uniformVars, resourceVars, dukuVars, issued, targetVars, deviceVars,
                   arg, panicked>>

SpecSnap == SnapInit /\ [][TexelSnap]_vars

\* the world origin under the final light matrix, scaled by shadow_map_size / 2
SnappedOrigin == <<(arg[1] + ret.col_w[1]) * HalfSize, (arg[2] + ret.col_w[2]) * HalfSize>>

WholeTexel(n) == n % SnapUnit = 0

\* C26: after the snap the world origin under the light matrix, scaled by
\* shadow_map_size / 2, has whole x and y; a snap of the snapped matrix has a
\* zero round offset and leaves the matrix as it is, and no snap moves the
\* matrix by more than half a texel.
C26_TexelSnapIdempotent ==
    /\ ret.snaps >= 1 =>
           /\ WholeTexel(SnappedOrigin[1])
           /\ WholeTexel(SnappedOrigin[2])
           /\ \A c \in 1..2 : 2 * (ret.col_w[c] - ret.before[c]) \in -SubTexels..SubTexels
    /\ ret.snaps >= 2 =>
           /\ ret.round_offset = <<0, 0>>
           /\ ret.col_w = ret.before

\* a matrix snapped twice whose first snap moved it, x down from half a texel
\* below zero and y up
C26_Witness ==
    /\ ret.snaps = 2
    /\ arg = <<-2, 3>>
    /\ ret.col_w = <<-2, 1>>

----------------------------------------------------------------------------
(* Buffers driven: a Buffer<T> or a DynamicBuffer is created, resized and   *)
(* written.  ret holds what the last call did: the byte counts mapped,     *)
(* whether the copy overran the allocation, the capacity the buffer had    *)
(* when called and the bytes the call asked for.                           *)

\* the longest slice handed to a buffer, in elements
MaxLen == 3
\* resizes in a run
MaxResizes == 2

\* size_of::<T>() of the element types: a byte and a word
ElemSizes == {1, 4}
Usages == {"Uniform", "Vertex"}

\* what a call leaves in ret
Outcome(mapped, overrun, capacity, size) ==
    [mapped |-> mapped, overrun |-> overrun, capacity |-> capacity, size |-> size]

BufferInit ==
    /\ uniform = ImageUniformNew
    /\ updates = <<>>
    /\ resources = ResourceManagerNew
    /\ removals = <<>>
    /\ render_stage = "Before"
    /\ calls = <<>>
    /\ render_unflushed = FALSE
    /\ duku = DukuFieldsNew(0)
    /\ \E debug_assertions \in BOOLEAN : device = DeviceNew(debug_assertions)
    /\ \E elem \in ElemSizes, n \in 0..MaxLen :
           \/ /\ \E usage \in Usages : buffer = dynamic(usage, elem, n)
              /\ op = "dynamic"
              /\ ret = Outcome(<<>>, FALSE, elem * n, 0)
           \/ /\ buffer = staging(elem, n)
              /\ op = "staging"
              /\ ret = Outcome(copy_from_data(staging(elem, n), n, FALSE).mapped, FALSE,
                               elem * n, elem * n)
           \/ /\ buffer = DynamicBufferNew(elem, n)
              /\ op = "new"
              /\ ret = Outcome(<<>>, FALSE, elem * n, 0)
    /\ arg = 0
    /\ panicked = FALSE
    /\ issued = IssuedNew
    /\ target = TargetNew
    /\ target_calls = 0
    /\ groups = GroupsNew
    /\ frame_calls = <<>>
    /\ heap = HeapNew
    /\ user_mesh = MeshNew

outsideBuffer ==
    <<uniformVars, resourceVars, dukuVars, issued, targetVars, device, groups, hostVars>>

BufferResize ==
    /\ ~panicked
    /\ buffer.kind = "Buffer"
    /\ buffer.handle <= MaxResizes
    /\ \E n \in 0..MaxLen :
           LET r == resize(buffer, n, device.debug_assertions)
           IN /\ buffer' = r.self
              /\ panicked' = r.panic
              /\ arg' = n
              /\ ret' = Outcome(<<>>, FALSE, buffer.size, buffer.elem * n)
    /\ op' = "resize"
    /\ UNCHANGED outsideBuffer

BufferCopyFromData ==
    /\ ~panicked
    /\ buffer.kind = "Buffer"
    /\ \E n \in 0..MaxLen :
           LET r == copy_from_data(buffer, n, device.debug_assertions)
           IN /\ panicked' = r.panic
              /\ arg' = n
              /\ ret' = Outcome(r.mapped, r.overrun, buffer.size, buffer.elem * n)
    /\ op' = "copy_from_data"
    /\ UNCHANGED <<outsideBuffer, buffer>>

DynamicBufferUpdateData ==
    /\ ~panicked
    /\ buffer.kind = "DynamicBuffer"
    /\ \E elem \in ElemSizes, n \in 0..MaxLen :
           LET r == update_data(buffer, elem, n)
           IN /\ panicked' = r.panic
              /\ arg' = n
              /\ ret' = Outcome(r.mapped, r.overrun, buffer.size, elem * n)
    /\ op' = "update_data"
    /\ UNCHANGED <<outsideBuffer, buffer>>

BufferNext ==
    \/ BufferResize
    \/ BufferCopyFromData
    \/ DynamicBufferUpdateData

SpecBuffers == BufferInit /\ [][BufferNext]_vars

\* C27: when resize(n) returns, the buffer's size is n * size_of::<T>() and
\* len() is n, whatever the length was before, and copy_from_data of n or
\* fewer elements then passes the capacity assertion and maps exactly the
\* bytes of the data, inside the allocation.
C27_ResizeMakesWriteFit ==
    (op = "resize" /\ ~panicked) =>
        /\ buffer.size = arg * buffer.elem
        /\ len(buffer) = arg
        /\ \A n \in 0..arg :
               LET r == copy_from_data(buffer, n, device.debug_assertions)
               IN /\ ~r.panic
                  /\ ~r.overrun
                  /\ r.mapped = <<n * buffer.elem>>

\* a buffer resized to fewer elements than it held
C27_Witness ==
    /\ op = "resize"
    /\ ~panicked
    /\ arg = 2
    /\ ret.capacity = 3 * buffer.elem
    /\ buffer.elem = 4

\* C28: a write of more bytes than the buffer's capacity fails before any
\* memory is mapped, and a write of at most the capacity maps exactly the
\* bytes of the data, for Buffer::copy_from_data and for
\* DynamicBuffer::update_data alike (in a build with debug assertions).
C28_OversizeWriteRejected ==
    (op \in {"copy_from_data", "update_data"} /\ device.debug_assertions) =>
        IF ret.size > ret.capacity
        THEN panicked /\ ret.mapped = <<>>
        ELSE ~panicked /\ ret.mapped = <<ret.size>> /\ ~ret.overrun

----------------------------------------------------------------------------
(* The four uniform groups driven: the Image group through add, remove,     *)
(* set_skybox and update_if_needed, the World and Material groups through  *)
(* update                                                                  *)

\* the data handed to update
WorldDatas == {"world_data_a", "world_data_b"}
MaterialDatas == {"material_data_a", "material_data_b"}

WorldUniformUpdate ==
    /\ ~panicked
    /\ \E data \in WorldDatas :
           /\ groups' = [groups EXCEPT !.world = world_uniform_update(@, data)]
           /\ arg' = data
    /\ op' = "world_update"
    /\ ret' = 0
    /\ UNCHANGED <<uniformVars, resourceVars, dukuVars, issued, targetVars, device, buffer,
                   hostVars, panicked>>

MaterialUniformUpdate ==
    /\ ~panicked
    /\ \E data \in MaterialDatas :
           /\ groups' = [groups EXCEPT !.material = material_uniform_update(@, data)]
           /\ arg' = data
    /\ op' = "material_update"
    /\ ret' = 0
    /\ UNCHANGED <<uniformVars, resourceVars, dukuVars, issued, targetVars, device, buffer,
                   hostVars, panicked>>

DescriptorsNext ==
    \/ Add
    \/ Remove
    \/ SetSkybox
    \/ UpdateIfNeeded
    \/ WorldUniformUpdate
    \/ MaterialUniformUpdate

SpecDescriptors == Init /\ [][DescriptorsNext]_vars

\* C29: the World, Material, Image and ShadowMap groups report the sets 0, 1,
\* 2 and 3, and descriptor() of each returns the value it had at construction
\* after any sequence of update, add, remove, set_skybox and update_if_needed.
C29_DescriptorsFixed ==
    /\ descriptor(groups.world).set = 0
    /\ descriptor(groups.material).set = 1
    /\ descriptor(uniform).set = 2
    /\ descriptor(groups.shadow_map).set = 3
    /\ descriptor(groups.world) = descriptor(WorldUniformNew)
    /\ descriptor(groups.material) = descriptor(MaterialUniformNew)
    /\ descriptor(uniform) = descriptor(ImageUniformNew)
    /\ descriptor(groups.shadow_map) = descriptor(GroupsNew.shadow_map)

\* both buffers were written, an image was added and the image group flushed
C29_Witness ==
    /\ groups.world.buffer = <<"world_data_b">>
    /\ groups.material.buffer = <<"material_data_a">>
    /\ Len(uniform.images) = 2
    /\ uniform.skybox # None
    /\ ~uniform.should_update

----------------------------------------------------------------------------
----------------------------------------------------------------------------
(* The arithmetic operators of Vec2 and of Vector3 applied to operands of  *)
(* the caller's choice                                                     *)

\* components are -MaxComp..MaxComp halves
MaxComp == 1

\* the inputs: components, vectors and the scalars -2.0, 0.0, 0.5, 1.5 and 2.0
Comps == {f32(n, 2) : n \in -MaxComp..MaxComp}
Vec2s == {Vec2New(x, y) : x \in Comps, y \in Comps}
Vector3s == {Vector3New(x, y, z) : x \in Comps, y \in Comps, z \in Comps}
Scalars == {f32(-2, 1), Zero(0), f32(1, 2), f32(3, 2), f32(2, 1)}

VectorOperators == {"add", "sub", "add_assign", "sub_assign"}
ScalarOperators == {"mul", "div", "mul_assign", "div_assign"}

\* what follows an operator name in arg: the right-hand sides it can take
RightSides(name, vectors) ==
    IF name = "neg" THEN {Zero(0)}
    ELSE IF name \in VectorOperators THEN vectors
    ELSE Scalars

\* one operator applied to operands of the caller's choice: arg is the type,
\* the operator and its operands (rhs is 0.0 for the negation), ret the result
Operate(type, vectors) ==
    /\ op # "operator"
    /\ \E name \in {"neg"} \cup VectorOperators \cup ScalarOperators :
       \E self \in vectors :
       \E rhs \in RightSides(name, vectors) :
           /\ arg' = [type |-> type, name |-> name, self |-> self, rhs |-> rhs]
           /\ ret' = IF type = "Vec2" THEN vec2_apply(name, self, rhs)
                     ELSE vector3_apply(name, self, rhs)
    /\ op' = "operator"
    /\ UNCHANGED <<uniformVars, resourceVars, dukuVars, issued, targetVars, deviceVars,
                   panicked>>

Vec2Operate == Operate("Vec2", Vec2s)

Vector3Operate == Operate("Vector3", Vector3s)

VectorsNext ==
    \/ Vec2Operate
    \/ Vector3Operate

SpecVectors == Init /\ [][VectorsNext]_vars

\* the f32 one operator computes from one component of self and of rhs
Componentwise(name, x, r) ==
    CASE name = "neg" -> fneg(x)
      [] name \in {"add", "add_assign"} -> fadd(x, r)
      [] name \in {"sub", "sub_assign"} -> fsub(x, r)
      [] name \in {"mul", "mul_assign"} -> fmul(x, r)
      [] name \in {"div", "div_assign"} -> fdiv(x, r)

\* component c of the right-hand side: of the vector, or the scalar itself
RightComponent(name, rhs, c) == IF name \in VectorOperators THEN rhs[c] ELSE rhs

\* C30: -a, a + b, a - b, a * s and a / s of Vec2 and of Vector3 are the
\* vectors of the per-component results, with as many components as the
\* operands, and each compound assignment leaves in self what the binary
\* operator returns.
C30_OperatorsComponentwise ==
    op = "operator" =>
        /\ DOMAIN ret = DOMAIN arg.self
        /\ \A c \in DOMAIN arg.self :
               ret[c] = Componentwise(arg.name, arg.self[c],
                                      RightComponent(arg.name, arg.rhs, c))

\* 0.5 * 1.5 is 0.75 in x, z is scaled as well: a Vector3 multiplied in place
\* by 1.5
C30_Witness ==
    /\ op = "operator"
    /\ arg.type = "Vector3"
    /\ arg.name = "mul_assign"
    /\ arg.self = Vector3New(f32(1, 2), Zero(0), f32(-1, 2))
    /\ arg.rhs = f32(3, 2)
    /\ ret = Vector3New(f32(3, 4), Zero(0), f32(-3, 4))

----------------------------------------------------------------------------
(* The sampler flags driven: the three enable_sampler_* setters, reset and  *)
(* the draws that bake the sampler index into their orders                  *)

SamplersNext ==
    \/ TargetEnableSamplerNearest("samplers")
    \/ TargetEnableSamplerClamp("samplers")
    \/ TargetEnableSamplerNoMipmaps("samplers")
    \/ TargetReset("samplers")
    \/ TargetDrawCube("samplers")
    \/ TargetDrawText("samplers")

SpecSamplers == Init /\ [][SamplersNext]_vars

\* the orders add_order is handed in a step
BakedOrders ==
    {target'.added[k].order : k \in (Len(target.added) + 1)..Len(target'.added)}

Flag(b) == IF b THEN 1 ELSE 0

\* the sampler the index selects in the list built by ImageUniform::new
SamplerAt(index) == At(SamplerCombinations, index)

\* C31: the sampler_index baked into an order is 4 * nearest + 2 * clamp +
\* no_mipmaps of the Target's flags at the draw, lies in 0..7, and selects in
\* the eight sampler combinations the one whose filter, address mode and
\* mipmap mode are those of the flags (off: Linear, Repeat, Enabled).
C31_SamplerIndexMatchesFlags ==
    [][\A order \in BakedOrders :
           /\ order.sampler_index = 4 * Flag(target.sampler_nearest)
                                    + 2 * Flag(target.sampler_clamp)
                                    + Flag(target.sampler_no_mipmaps)
           /\ order.sampler_index \in 0..7
           /\ Len(SamplerCombinations) = 8
           /\ SamplerAt(order.sampler_index) =
                  [filter |-> IF target.sampler_nearest THEN "Nearest" ELSE "Linear",
                   address |-> IF target.sampler_clamp THEN "Clamp" ELSE "Repeat",
                   mipmaps |-> IF target.sampler_no_mipmaps THEN "Disabled" ELSE "Enabled"]]_vars

\* orders were drawn with every flag set and with clamp alone
C31_Witness ==
    /\ \E k \in DOMAIN target.added : target.added[k].order.sampler_index = 7
    /\ \E k \in DOMAIN target.added : target.added[k].order.sampler_index = 2

----------------------------------------------------------------------------
(* The frames driven: textures and framebuffers come and go, Duku::draw and *)
(* Duku::draw_on_window render, and frame_calls keeps the calls made since  *)
(* the last end_draw, the end_draw that closes them included                *)

MaxFrameDraws == 2

\* the number of calls of a name in a sequence of calls
RECURSIVE Count(_, _)
Count(name, s) ==
    IF s = <<>> THEN 0
    ELSE (IF Head(s) = name THEN 1 ELSE 0) + Count(name, Tail(s))

\* the position of the first call of a name in a sequence of calls, 0 when there is none
First(name, s) ==
    IF \E n \in DOMAIN s : s[n] = name
    THEN CHOOSE n \in DOMAIN s : s[n] = name /\ \A k \in 1..(n - 1) : s[k] # name
    ELSE 0

\* end_draw has closed the frame the calls belong to
Ended(s) == Count("present", s) > 0

\* the calls of the frame a draw call belongs to, the call's own included
Logged(made) == (IF Ended(frame_calls) THEN <<>> ELSE frame_calls) \o made

FrameDraw ==
    /\ ~panicked /\ HasDuku
    /\ Ended(frame_calls) \/ Count("render", frame_calls) < MaxFrameDraws
    /\ \E h \in DOMAIN resources.framebuffers :
        /\ resources.framebuffers[h].count > 0
        /\ arg' = h
    /\ \E seen \in skybox_info(uniform) :
        LET r == draw(Duku, seen)
        IN /\ Drawn("draw", r)
           /\ frame_calls' = Logged(r.calls)

FrameDrawOnWindow ==
    /\ ~panicked /\ HasDuku
    /\ duku.frame_count < MaxFrames
    /\ \E should_resize \in BOOLEAN, elapsed \in Durations, listed \in 0..MaxGpus,
          seen \in skybox_info(uniform) :
        LET r == draw_on_window(Duku, should_resize, elapsed, listed, seen)
        IN /\ Listing(should_resize, listed)
           /\ Drawn("draw_on_window", r)
           /\ frame_calls' = Logged(r.calls)
           /\ arg' = [should_resize |-> should_resize, elapsed |-> elapsed,
                      listed |-> listed]

FramesNext ==
    \/ DukuCreateTexture
    \/ DukuCreateFramebuffer
    \/ DukuDropTexture
    \/ FrameDraw
    \/ FrameDrawOnWindow

SpecFrames == DukuInit /\ [][FramesNext]_vars

\* C32: over any sequence of Duku::draw and Duku::draw_on_window calls,
\* begin_draw runs exactly once between two consecutive end_draw calls, before
\* the first render of that frame, and inside it clear_unused comes before the
\* image uniform's update_if_needed, which comes before the binding of the
\* image descriptor.
C32_BeginDrawOncePerFrame ==
    /\ Count("next_frame", frame_calls) <= 1
    /\ Count("render", frame_calls) > 0 => Count("next_frame", frame_calls) = 1
    /\ Ended(frame_calls) =>
        /\ Count("next_frame", frame_calls) = 1
        /\ Count("present", frame_calls) = 1
        /\ First("next_frame", frame_calls) = 1
    /\ Count("render", frame_calls) > 0 =>
        /\ Count("clear_unused", frame_calls) = 1
        /\ Count("update_if_needed", frame_calls) = 1
        /\ Count("bind_descriptor", frame_calls) = 1
        /\ First("next_frame", frame_calls) < First("clear_unused", frame_calls)
        /\ First("clear_unused", frame_calls) < First("update_if_needed", frame_calls)
        /\ First("update_if_needed", frame_calls) < First("bind_descriptor", frame_calls)
        /\ First("bind_descriptor", frame_calls) < First("render", frame_calls)

\* a frame of two draws to a framebuffer and one to the window has been ended
C32_Witness ==
    /\ Ended(frame_calls)
    /\ Count("render", frame_calls) = 3
    /\ op = "draw_on_window"
    /\ ~panicked
    /\ Count("next_frame", calls) = 0

----------------------------------------------------------------------------
(* The life of a Duku: frames are drawn, the window is resized, and the     *)
(* Duku is dropped, after which nothing is called on it                     *)

Dropped == op = "drop_duku"

DukuDrop ==
    /\ ~panicked /\ HasDuku
    /\ ~Dropped
    /\ calls' = duku_drop(Duku).calls
    /\ frame_calls' = frame_calls \o duku_drop(Duku).calls
    /\ op' = "drop_duku"
    /\ arg' = 0
    /\ ret' = 0
    /\ updates' = <<>>
    /\ removals' = <<>>
    /\ UNCHANGED <<uniform, resources, render_stage, render_unflushed, duku, panicked, issued,
                   targetVars, device, buffer, groups, heap, user_mesh>>

LifetimeNext ==
    \/ ~Dropped /\ DukuCreateTexture
    \/ ~Dropped /\ DukuCreateFramebuffer
    \/ ~Dropped /\ DukuDropTexture
    \/ ~Dropped /\ FrameDraw
    \/ ~Dropped /\ FrameDrawOnWindow
    \/ DukuDrop

SpecLifetime == DukuInit /\ [][LifetimeNext]_vars

\* the calls of the last operation that destroy something on the GPU
Destructions ==
    {n \in DOMAIN calls :
        calls[n] \in {"resources_clear", "forward_renderer_destroy",
                      "framebuffer_destroy", "uniforms_destroy", "destroy_swapchain",
                      "destroy_surface", "device_destroy", "instance_destroy", "recreate"}}

\* C33: in Duku::drop, device.wait_idle() comes before every destruction of
\* resources, renderer, framebuffers and uniforms, and device.destroy() and
\* instance.destroy() come last, in that order; when end_draw resizes the
\* swapchain, wait_idle() comes before the swapchain is recreated and the
\* window framebuffers are destroyed.
C33_DrainBeforeDestroy ==
    /\ Destructions # {} =>
        /\ Count("wait_idle", calls) = 1
        /\ \A n \in Destructions : First("wait_idle", calls) < n
    /\ Dropped =>
        /\ {"resources_clear", "forward_renderer_destroy", "framebuffer_destroy",
            "uniforms_destroy"} \subseteq {calls[n] : n \in Destructions}
        /\ calls[Len(calls) - 1] = "device_destroy"
        /\ calls[Len(calls)] = "instance_destroy"
        /\ Count("device_destroy", calls) = 1
        /\ Count("instance_destroy", calls) = 1
    /\ (op = "draw_on_window" /\ ~panicked /\ arg.should_resize) =>
        /\ Called("recreate")
        /\ Count("framebuffer_destroy", calls) = WindowFramebuffers
        /\ First("wait_idle", calls) < First("recreate", calls)
        /\ First("wait_idle", calls) < First("framebuffer_destroy", calls)

\* the Duku was dropped after a frame whose end resized the swapchain
C33_Witness ==
    /\ Dropped
    /\ Count("recreate", frame_calls) = 1
    /\ Count("render", frame_calls) > 0

----------------------------------------------------------------------------
(* The life of one Buffer<T>: Buffer::dynamic or Buffer::staging, then      *)
(* resizes, then destroy, with the device's allocator watched               *)

BufferCreated ==
    /\ uniform = ImageUniformNew
    /\ updates = <<>>
    /\ resources = ResourceManagerNew
    /\ removals = <<>>
    /\ render_stage = "Before"
    /\ calls = <<>>
    /\ render_unflushed = FALSE
    /\ duku = DukuFieldsNew(0)
    /\ \E debug_assertions \in BOOLEAN : device = DeviceNew(debug_assertions)
    /\ \E elem \in ElemSizes, n \in 0..MaxLen :
           \/ /\ \E usage \in Usages : buffer = dynamic(usage, elem, n)
              /\ op = "dynamic"
           \/ /\ buffer = staging(elem, n)
              /\ op = "staging"
    /\ heap = allocate_buffer(HeapNew, handle(buffer))
    /\ arg = 0
    /\ ret = 0
    /\ panicked = FALSE
    /\ issued = IssuedNew
    /\ target = TargetNew
    /\ target_calls = 0
    /\ groups = GroupsNew
    /\ frame_calls = <<>>
    /\ user_mesh = MeshNew

outsideAllocation ==
    <<uniformVars, resourceVars, dukuVars, issued, targetVars, device, groups, frame_calls,
      user_mesh>>

Destroyed == op = "destroy"

AllocationResize ==
    /\ ~panicked
    /\ ~Destroyed
    /\ handle(buffer) <= MaxResizes
    /\ \E n \in 0..MaxLen :
           LET r == resize(buffer, n, device.debug_assertions)
           IN /\ buffer' = r.self
              /\ panicked' = r.panic
              /\ heap' = served(heap, r.calls)
              /\ arg' = n
              /\ ret' = [before |-> handle(buffer), calls |-> r.calls]
    /\ op' = "resize"
    /\ UNCHANGED outsideAllocation

AllocationDestroy ==
    /\ ~panicked
    /\ ~Destroyed
    /\ LET r == destroy(buffer)
       IN /\ buffer' = r.self
          /\ heap' = served(heap, r.calls)
          /\ ret' = [before |-> handle(buffer), calls |-> r.calls]
    /\ op' = "destroy"
    /\ arg' = 0
    /\ UNCHANGED <<outsideAllocation, panicked>>

AllocationNext ==
    \/ AllocationResize
    \/ AllocationDestroy

SpecAllocation == BufferCreated /\ [][AllocationNext]_vars

\* the allocations the device has handed out
Allocated ==
    {heap.calls[n].handle : n \in {k \in DOMAIN heap.calls : heap.calls[k].call = "allocate_buffer"}}

\* the number of times an allocation was freed
Frees(allocation) == Cardinality({n \in DOMAIN heap.freed : heap.freed[n] = allocation})

\* C34: resize frees the allocation held before it allocates the new one and
\* the buffer then reports the new handle and the new size; over
\* dynamic(..) or staging(..), any number of resizes and a final destroy, no
\* allocation is freed twice, every allocation but the one held has been freed,
\* handle() is a live allocation until the destroy, and after the destroy
\* every allocation has been freed exactly once; a resize of a staging
\* (TransferSrc) buffer fails its assertion (in a build with debug
\* assertions) and leaves the allocation alone.
C34_AllocationLifecycle ==
    /\ \A allocation \in Allocated : Frees(allocation) <= 1
    /\ \A n \in DOMAIN heap.freed : heap.freed[n] \in Allocated
    /\ ~Destroyed =>
        /\ heap.live = {handle(buffer)}
        /\ \A allocation \in Allocated \ {handle(buffer)} : Frees(allocation) = 1
    /\ Destroyed =>
        /\ heap.live = {}
        /\ \A allocation \in Allocated : Frees(allocation) = 1
    /\ (op = "resize" /\ ~panicked) =>
        /\ Len(ret.calls) = 2
        /\ ret.calls[1] = [call |-> "free_buffer", handle |-> ret.before]
        /\ ret.calls[2] = [call |-> "allocate_buffer", handle |-> handle(buffer)]
        /\ handle(buffer) # ret.before
        /\ buffer.size = arg * buffer.elem
    /\ (op = "resize" /\ buffer.usage = "TransferSrc" /\ device.debug_assertions) =>
        /\ panicked
        /\ ret.calls = <<>>
        /\ handle(buffer) = ret.before

\* a buffer was destroyed after two resizes
C34_Witness ==
    /\ Destroyed
    /\ Len(heap.freed) = 3
    /\ buffer.usage = "Vertex"

----------------------------------------------------------------------------
(* The cascades of a draw *)

\* the WorldData written in the last draw to the world uniform of a framebuffer
WorldDataOf(written) ==
    SelectSeq(device.commands,
              LAMBDA c : c.cmd = "world_uniform_update" /\ c.framebuffer = written)

\* the split fractions of the drawn Target and the near end of cascade i's slice
Splits == cascade_splits(arg.target)
NearOf(i) == IF i = 0 THEN 0 ELSE At(Splits, i - 1)

\* C35: in a draw with shadow mapping, cascade i covers the depth slice from
\* split[i - 1] (0 for the first cascade) to split[i]: the matrix written to
\* the world uniform of cascade i's shadow framebuffer is the snapped light
\* matrix of that slice; the colour pass is handed cascade_splits[i] =
\* camera.depth * split[i] and light_matrices[i] = that same matrix; the
\* entries at indices from the number of cascades on stay zero and identity,
\* as do all entries in a draw without shadow mapping.
C35_CascadeSlices ==
    (Rendered /\ ret.ok) =>
        LET colour == WorldDataOf(Window)
            cascades == IF do_shadow_mapping(arg.target) THEN Len(Splits) ELSE 0
        IN /\ Len(colour) = 1
           /\ Len(colour[1].data.cascade_splits) = 4
           /\ Len(colour[1].data.light_matrices) = 4
           /\ \A i \in 0..(cascades - 1) :
                LET shadow == WorldDataOf(ForwardRendererNew.shadow_framebuffers[arg.frame][i])
                IN /\ Len(shadow) = 1
                   /\ shadow[1].data.world_matrix = LightMatrix(NearOf(i), At(Splits, i))
                   /\ At(colour[1].data.light_matrices, i) = shadow[1].data.world_matrix
                   /\ At(colour[1].data.cascade_splits, i) = Window.depth * At(Splits, i)
           /\ \A i \in cascades..3 :
                /\ At(colour[1].data.light_matrices, i) = Identity
                /\ At(colour[1].data.cascade_splits, i) = 0

\* a draw with shadow mapping went through: the second cascade starts where the
\* first ends
C35_Witness ==
    /\ Rendered
    /\ ret.ok
    /\ do_shadow_mapping(arg.target)
    /\ At(WorldDataOf(Window)[1].data.light_matrices, 1) = LightMatrix(10, 30)
    /\ At(WorldDataOf(Window)[1].data.cascade_splits, 1) = 3000

----------------------------------------------------------------------------
(* The buckets driven: shaders and materials are set, wireframe mode is     *)
(* switched, and cubes, text and framebuffer blits are drawn                *)

BucketsNext ==
    \/ TargetSetShader("buckets")
    \/ TargetSetMaterial("buckets")
    \/ TargetSetWireframes("buckets")
    \/ TargetDrawCube("buckets")
    \/ TargetBlitFramebuffer("buckets")
    \/ TargetDrawText("buckets")
    \/ TargetReset("buckets")

SpecBuckets == Init /\ [][BucketsNext]_vars

\* C36: orders_by_shader never holds two buckets of one shader, no shader
\* bucket holds two sub-buckets of one material, and no bucket or sub-bucket is
\* empty, whatever was drawn: in wireframe mode, by blit_framebuffer and by
\* draw_text as well.
C36_BucketsUniqueNonEmpty ==
    LET by_shader == target.orders_by_shader
    IN /\ \A s, t \in DOMAIN by_shader : by_shader[s].shader = by_shader[t].shader => s = t
       /\ \A s \in DOMAIN by_shader :
            LET by_material == by_shader[s].orders_by_material
            IN /\ by_material # <<>>
               /\ \A m, n \in DOMAIN by_material :
                    by_material[m].material = by_material[n].material => m = n
               /\ \A m \in DOMAIN by_material : by_material[m].orders # <<>>

\* the wireframe bucket, the blit bucket and a bucket of two materials stand
\* side by side
C36_Witness ==
    LET by_shader == target.orders_by_shader
    IN /\ WireframeBuckets(by_shader) # {}
       /\ \E s \in DOMAIN by_shader : by_shader[s].shader = builtins.blit_shader
       /\ \E s \in DOMAIN by_shader : Len(by_shader[s].orders_by_material) = 2
       /\ Len(target.added) = 3

----------------------------------------------------------------------------
(* A Mesh driven: its setters, calculate_normals and update_if_needed in    *)
(* any order, from Mesh::new in a build with or without debug assertions    *)

MaxVertices == 3
MaxIndices == 4

\* a Vec of n default elements
Zeros(n) == [k \in 1..n |-> 0]

\* n positions: the origin, then the unit points of the x, y and z axes in turn
Positions(n) ==
    [k \in 1..n |->
        IF k = 1 THEN Vector3ZERO
        ELSE Vector3New(IF k % 3 = 2 THEN as_f32(1) ELSE Zero(0),
                        IF k % 3 = 0 THEN as_f32(1) ELSE Zero(0),
                        IF k % 3 = 1 THEN as_f32(1) ELSE Zero(0))]

\* n indices that go round the first three vertices
Winding(n) == [k \in 1..n |-> (k - 1) % 3]

MeshInit ==
    /\ uniform = ImageUniformNew
    /\ updates = <<>>
    /\ resources = ResourceManagerNew
    /\ removals = <<>>
    /\ render_stage = "Before"
    /\ calls = <<>>
    /\ render_unflushed = FALSE
    /\ duku = DukuFieldsNew(0)
    /\ \E debug_assertions \in BOOLEAN : device = DeviceNew(debug_assertions)
    /\ buffer = dynamic("Uniform", 1, 1)
    /\ user_mesh = MeshNew
    /\ heap = HeapNew
    /\ op = "new"
    /\ arg = 0
    /\ ret = 0
    /\ panicked = FALSE
    /\ issued = IssuedNew
    /\ target = TargetNew
    /\ target_calls = 0
    /\ groups = GroupsNew
    /\ frame_calls = <<>>

outsideMesh ==
    <<uniformVars, resourceVars, dukuVars, issued, targetVars, device, buffer, groups,
      frame_calls, heap>>

\* one call of a setter of the Mesh: op records that a setter was called,
\* not which
MeshSet(result) ==
    /\ user_mesh' = result
    /\ op' = "set"
    /\ arg' = 0
    /\ ret' = 0
    /\ UNCHANGED <<outsideMesh, panicked>>

MeshSetVertices ==
    /\ ~panicked
    /\ \E n \in 0..MaxVertices :
           MeshSet(mesh_set_vertices(user_mesh, Positions(n)))

MeshSetIndices ==
    /\ ~panicked
    /\ \E n \in 0..MaxIndices :
           MeshSet(mesh_set_indices(user_mesh, Winding(n)))

MeshSetUvs ==
    /\ ~panicked
    /\ MeshSet(mesh_set_uvs(user_mesh, [k \in 1..(MaxVertices + 1) |-> Vector2ZERO]))

MeshSetNormals ==
    /\ ~panicked
    /\ MeshSet(mesh_set_normals(user_mesh, Zeros(0)))

MeshSetColors ==
    /\ ~panicked
    /\ MeshSet(mesh_set_colors(user_mesh, Zeros(1)))

MeshSetTextures ==
    /\ ~panicked
    /\ MeshSet(mesh_set_textures(user_mesh, Zeros(1)))

MeshSetExtraData1 ==
    /\ ~panicked
    /\ MeshSet(mesh_set_extra_data_1(user_mesh, Zeros(1)))

MeshSetExtraData2 ==
    /\ ~panicked
    /\ MeshSet(mesh_set_extra_data_2(user_mesh, Zeros(1)))

MeshCalculateNormals ==
    /\ ~panicked
    /\ \E r \in {mesh_calculate_normals(user_mesh)} :
           /\ user_mesh' = r.self
           /\ panicked' = r.panic
    /\ op' = "calculate_normals"
    /\ arg' = 0
    /\ ret' = 0
    /\ UNCHANGED outsideMesh

MeshUpdateIfNeeded ==
    /\ ~panicked
    /\ LET r == mesh_update_if_needed(user_mesh, device.debug_assertions)
       IN /\ user_mesh' = r.self
          /\ panicked' = r.panic
          /\ ret' = [before |-> user_mesh, calls |-> r.calls]
    /\ op' = "update_if_needed"
    /\ arg' = 0
    /\ UNCHANGED outsideMesh

MeshNext ==
    \/ MeshSetVertices
    \/ MeshSetIndices
    \/ MeshSetUvs
    \/ MeshSetNormals
    \/ MeshSetColors
    \/ MeshSetTextures
    \/ MeshSetExtraData1
    \/ MeshSetExtraData2
    \/ MeshCalculateNormals
    \/ MeshUpdateIfNeeded

SpecMesh == MeshInit /\ [][MeshNext]_vars

\* the calls of one name an update made
Made(name) == SelectSeq(ret.calls, LAMBDA c : c.call = name)

\* C37: whatever setters were called before it, update_if_needed of a changed
\* Mesh resizes the vertex buffer and the index buffer before it copies, only
\* ever to more elements than they held, so that no copy fails the capacity
\* assertion or runs past the allocation; it copies nothing when the vertices
\* or the indices are empty and otherwise the vertices and the indices, once
\* each; afterwards index_count is indices.len() and should_update is clear,
\* and an update_if_needed of a Mesh that is not marked changed does nothing.
C37_MeshUpload ==
    /\ ~user_mesh.should_update =>
           mesh_update_if_needed(user_mesh, device.debug_assertions) =
               [self |-> user_mesh, panic |-> FALSE, calls |-> <<>>]
    /\ op = "update_if_needed" =>
        /\ ~panicked
        /\ ~user_mesh.should_update
        /\ user_mesh.index_count = Len(user_mesh.indices)
        /\ ~ret.before.should_update => (ret.calls = <<>> /\ user_mesh = ret.before)
        /\ ret.before.should_update =>
            /\ \A i, j \in DOMAIN ret.calls :
                   (ret.calls[i].call = "resize" /\ ret.calls[j].call = "copy_from_data") => i < j
            /\ len(user_mesh.vertex_buffer) >= len(ret.before.vertex_buffer)
            /\ len(user_mesh.index_buffer) >= len(ret.before.index_buffer)
            /\ len(user_mesh.vertex_buffer) >= Len(user_mesh.vertices)
            /\ len(user_mesh.index_buffer) >= Len(user_mesh.indices)
            /\ \A i \in DOMAIN ret.calls :
                   ret.calls[i].call = "resize" =>
                       ret.calls[i].len > len(IF ret.calls[i].usage = "Vertex"
                                              THEN ret.before.vertex_buffer
                                              ELSE ret.before.index_buffer)
            /\ Made("copy_from_data") =
                   IF user_mesh.vertices = <<>> \/ user_mesh.indices = <<>>
                   THEN <<>>
                   ELSE <<[call |-> "copy_from_data", usage |-> "Vertex",
                           len |-> Len(user_mesh.vertices), overrun |-> FALSE],
                          [call |-> "copy_from_data", usage |-> "Index",
                           len |-> Len(user_mesh.indices), overrun |-> FALSE]>>

\* an update grew both buffers and copied, after an earlier update had grown
\* the vertex buffer further
C37_Witness ==
    /\ op = "update_if_needed"
    /\ Len(Made("resize")) = 1
    /\ Len(Made("copy_from_data")) = 2
    /\ len(user_mesh.vertex_buffer) > Len(user_mesh.vertices)
    /\ len(user_mesh.index_buffer) = MaxIndices

----------------------------------------------------------------------------
(* Mesh::combine applied to lists of meshes, small ones and one that has    *)
(* as many vertices as a u16 can count                                      *)

MaxMeshes == 3

\* a Mesh of the builder: Mesh::new, then vertices and indices set
Built(vertices, indices) ==
    mesh_set_indices(mesh_set_vertices(MeshNew, Positions(vertices)), indices)

\* a point, a segment and a mesh of 65535 vertices, each indexed within itself
Shapes == {Built(1, <<0>>), Built(2, <<0, 1>>), Built(U16 - 1, <<1>>)}

MeshLists == UNION {[1..n -> Shapes] : n \in 1..MaxMeshes}

CombineInit ==
    /\ uniform = ImageUniformNew
    /\ updates = <<>>
    /\ resources = ResourceManagerNew
    /\ removals = <<>>
    /\ render_stage = "Before"
    /\ calls = <<>>
    /\ render_unflushed = FALSE
    /\ duku = DukuFieldsNew(0)
    /\ \E debug_assertions \in BOOLEAN : device = DeviceNew(debug_assertions)
    /\ buffer = dynamic("Uniform", 1, 1)
    /\ user_mesh = MeshNew
    /\ heap = HeapNew
    /\ op = "meshes"
    /\ arg \in MeshLists
    /\ ret = 0
    /\ panicked = FALSE
    /\ issued = IssuedNew
    /\ target = TargetNew
    /\ target_calls = 0
    /\ groups = GroupsNew
    /\ frame_calls = <<>>

MeshCombine ==
    /\ ~panicked
    /\ op = "meshes"
    /\ LET r == combine(arg, device.debug_assertions)
       IN /\ user_mesh' = r.self
          /\ panicked' = r.panic
    /\ op' = "combine"
    /\ ret' = 0
    /\ UNCHANGED <<outsideMesh, arg>>

CombineNext == MeshCombine

SpecCombine == CombineInit /\ [][CombineNext]_vars

\* the number of vertices of the first k meshes of a list
RECURSIVE VerticesBefore(_, _)
VerticesBefore(meshes, k) ==
    IF k = 0 THEN 0 ELSE VerticesBefore(meshes, k - 1) + Len(meshes[k].vertices)

\* the indices Mesh::combine is to produce: those of mesh k raised by the
\* number of vertices of the meshes before it
RECURSIVE Rebased(_, _)
Rebased(meshes, k) ==
    IF k = 0 THEN <<>>
    ELSE Rebased(meshes, k - 1) \o
         [n \in DOMAIN meshes[k].indices |->
             meshes[k].indices[n] + VerticesBefore(meshes, k - 1)]

\* C38: Mesh::combine rebases the indices: every index taken from input mesh k
\* is the original index plus the number of vertices of the meshes before it,
\* and the sixteen-bit arithmetic that computes it neither wraps nor overflows.
C38_CombineRebasesIndices ==
    op = "combine" =>
        /\ ~panicked
        /\ user_mesh.indices = Rebased(arg, Len(arg))
        /\ \A n \in DOMAIN user_mesh.indices : user_mesh.indices[n] < U16

----------------------------------------------------------------------------
(* Mesh of tegne/src/mesh/mod.rs                                            *)

\* Vector2::default() and Vector3::default()
Vector2Default == Vector2ZERO
Vector3Default == Vector3ZERO

\* vec![default; vertex_count] with the given values cloned over its beginning
padded(given, vertex_count, default) ==
    [n \in 1..vertex_count |-> IF n <= Len(given) THEN given[n] ELSE default]

\* size_of::<Vertex>() of tegne: pos is a Vector3, uv a Vector2, norm a Vector3
TegneVertexSize == 32

\* Mesh::new: ret is "Ok" or the ErrorKind returned, created lists the GPU
\* buffers made
tegne_mesh_new(options) ==
    LET vertex_count == Len(options.vertices)
        indices_count == Len(options.triangles)
        created == <<DynamicBufferNew(TegneVertexSize, vertex_count),
                     [kind |-> "Buffer", usage |-> "Index", len |-> indices_count]>>
        uvs == padded(options.uvs, vertex_count, Vector2Default)
        normals == padded(options.normals, vertex_count, Vector3Default)
        built(given) ==
            [ret |-> "Ok", created |-> created, panic |-> FALSE,
             self |-> [vertices |-> options.vertices,
                       uvs |-> uvs,
                       normals |-> given,
                       vertex_buffer |-> created[1],
                       index_buffer |-> created[2],
                       should_update |-> TRUE,
                       drawn_triangles |-> indices_count \div 3]]
    IN IF options.vertices = <<>>
       THEN [ret |-> "NoVertices", created |-> <<>>, panic |-> FALSE]
       ELSE IF options.triangles = <<>>
       THEN [ret |-> "NoTriangles", created |-> <<>>, panic |-> FALSE]
       ELSE IF Len(options.uvs) > vertex_count
       THEN [ret |-> "TooManyUvs", created |-> <<>>, panic |-> FALSE]
       ELSE IF Len(options.normals) > vertex_count
       THEN [ret |-> "TooManyNormals", created |-> <<>>, panic |-> FALSE]
       ELSE IF options.normals # <<>> THEN built(normals)
       ELSE only({IF smooth.panic
                  THEN [ret |-> "panic", created |-> created, panic |-> TRUE]
                  ELSE built([n \in DOMAIN smooth.normals |-> vector3_unit(smooth.normals[n])]) :
                  smooth \in {smooth_normals(normals, options.vertices, options.triangles, 1)}})

\* Mesh::set_vertices of tegne
tegne_set_vertices(self, vertices) ==
    [self EXCEPT !.vertices = vertices, !.should_update = TRUE]

\* Mesh::set_uvs of tegne
tegne_set_uvs(self, uvs) ==
    [self EXCEPT !.uvs = uvs, !.should_update = TRUE]

\* Mesh::set_normals of tegne
tegne_set_normals(self, normals) ==
    [self EXCEPT !.normals = normals, !.should_update = TRUE]

\* Mesh::set_drawn_triangles
tegne_set_drawn_triangles(self, count) ==
    [self EXCEPT !.drawn_triangles = count]

\* the shortest of three lengths: where zip(..).zip(..) ends
shortest(a, b, c) == IF a <= b /\ a <= c THEN a ELSE IF b <= c THEN b ELSE c

\* Mesh::vk_vertex_buffer: a changed mesh zips its vertices, uvs and normals
\* into as many Vertex as the shortest of them has and copies them into the
\* vertex buffer, whatever its size; calls is the update_data made
vk_vertex_buffer(self) ==
    IF ~self.should_update THEN [self |-> self, calls |-> <<>>]
    ELSE LET vertices == shortest(Len(self.vertices), Len(self.uvs), Len(self.normals))
             copied == update_data(self.vertex_buffer, TegneVertexSize, vertices)
         IN [self |-> [self EXCEPT !.should_update = FALSE],
             calls |-> <<[call |-> "update_data", len |-> vertices,
                          mapped |-> copied.mapped, overrun |-> copied.overrun]>>]

----------------------------------------------------------------------------
(* Mesh::new applied to options of every kind *)

MaxOptions == 4

\* a triangle in the plane z = 0
Corners ==
    <<Vector3ZERO, Vector3New(as_f32(1), Zero(0), Zero(0)),
      Vector3New(Zero(0), as_f32(1), Zero(0))>>

MeshOptions ==
    [vertices : {<<>>, SubSeq(Corners, 1, 1), Corners},
     uvs : {[n \in 1..k |-> Vec2New(as_f32(1), as_f32(1))] : k \in 0..MaxOptions},
     normals : {[n \in 1..k |-> Vector3New(Zero(0), Zero(0), as_f32(1))] : k \in 0..MaxOptions},
     triangles : {<<>>, <<0, 1, 2>>, <<0, 0, 0>>, <<0, 1, 2, 0>>, <<0, 1, 3>>}]

OptionsInit ==
    /\ uniform = ImageUniformNew
    /\ updates = <<>>
    /\ resources = ResourceManagerNew
    /\ removals = <<>>
    /\ render_stage = "Before"
    /\ calls = <<>>
    /\ render_unflushed = FALSE
    /\ duku = DukuFieldsNew(0)
    /\ device = DeviceNew(TRUE)
    /\ buffer = dynamic("Uniform", 1, 1)
    /\ user_mesh = MeshNew
    /\ heap = HeapNew
    /\ op = "options"
    /\ arg \in MeshOptions
    /\ ret = 0
    /\ panicked = FALSE
    /\ issued = IssuedNew
    /\ target = TargetNew
    /\ target_calls = 0
    /\ groups = GroupsNew
    /\ frame_calls = <<>>

\* Mesh::new: the mesh it returns is the one the setters then change
TegneMeshNew ==
    /\ ~panicked
    /\ op = "options"
    /\ \E r \in {tegne_mesh_new(arg)} :
           /\ ret' = r
           /\ panicked' = r.panic
           /\ user_mesh' = IF r.ret = "Ok" THEN r.self ELSE user_mesh
    /\ op' = "mesh_new"
    /\ UNCHANGED <<outsideMesh, arg>>

\* Mesh::new has returned a mesh
TegneMeshHeld == op # "options" /\ ret.ret = "Ok"

\* one call of a setter of the mesh
TegneSet(name, result) ==
    /\ user_mesh' = result
    /\ op' = name
    /\ UNCHANGED <<outsideMesh, arg, ret, panicked>>

TegneSetVertices ==
    /\ TegneMeshHeld
    /\ \E vertices \in {<<>>, Corners} :
           TegneSet("set_vertices", tegne_set_vertices(user_mesh, vertices))

TegneSetUvs ==
    /\ TegneMeshHeld
    /\ TegneSet("set_uvs", tegne_set_uvs(user_mesh, [n \in 1..Len(Corners) |-> Vector2Default]))

TegneSetNormals ==
    /\ TegneMeshHeld
    /\ TegneSet("set_normals",
                tegne_set_normals(user_mesh, [n \in 1..Len(Corners) |-> Vector3Default]))

TegneSetDrawnTriangles ==
    /\ TegneMeshHeld
    /\ TegneSet("set_drawn_triangles", tegne_set_drawn_triangles(user_mesh, 0))

\* Mesh::vk_vertex_buffer, as a draw calls it: calls holds the copy it made
TegneVkVertexBuffer ==
    /\ TegneMeshHeld
    /\ \E r \in {vk_vertex_buffer(user_mesh)} :
           /\ user_mesh' = r.self
           /\ calls' = r.calls
    /\ op' = "vk_vertex_buffer"
    /\ UNCHANGED <<uniformVars, resourceVars, render_stage, render_unflushed, duku, issued,
                   targetVars, device, buffer, groups, frame_calls, heap, arg, ret,
                   panicked>>

OptionsNext ==
    \/ TegneMeshNew
    \/ TegneSetVertices
    \/ TegneSetUvs
    \/ TegneSetNormals
    \/ TegneSetDrawnTriangles
    \/ TegneVkVertexBuffer

SpecOptions == OptionsInit /\ [][OptionsNext]_vars

\* C39: Mesh::new checks its options in a fixed order and makes no GPU buffer
\* when it fails: no vertices is NoVertices, else no triangles is NoTriangles,
\* else more uvs than vertices is TooManyUvs, else more normals than vertices
\* is TooManyNormals; otherwise it succeeds with the uvs and the normals
\* continued with defaults up to the number of vertices and with
\* drawn_triangles the number of indices divided by 3.
C39_MeshNewValidation ==
    op = "mesh_new" =>
        LET vertex_count == Len(arg.vertices)
        IN /\ ret.ret = IF arg.vertices = <<>> THEN "NoVertices"
                        ELSE IF arg.triangles = <<>> THEN "NoTriangles"
                        ELSE IF Len(arg.uvs) > vertex_count THEN "TooManyUvs"
                        ELSE IF Len(arg.normals) > vertex_count THEN "TooManyNormals"
                        ELSE "Ok"
           /\ ret.ret # "Ok" => ret.created = <<>>
           /\ ret.ret = "Ok" =>
                /\ ret.self.uvs = padded(arg.uvs, vertex_count, Vector2Default)
                /\ ret.self.normals = padded(arg.normals, vertex_count, Vector3Default)
                /\ ret.self.drawn_triangles = Len(arg.triangles) \div 3


-----------------------------------------------------------------------------
(* The RenderStats returned by ForwardRenderer::draw, against the buckets   *)
(* of the Target that was rendered.                                        *)

\* the sum of Mesh::index_count over a sequence of orders
RECURSIVE IndicesOf(_)
IndicesOf(orders) ==
    IF orders = <<>> THEN 0
    ELSE index_count(Head(orders).mesh) + IndicesOf(Tail(orders))

\* the draws recorded outside the colour pass, which are the shadow passes'
ShadowDraws == Cardinality(Recorded("draw")) - InColourPass("draw")

\* C40: the RenderStats of a successful draw hold the number of shader
\* buckets in shaders_used, the number of material buckets in materials_used,
\* the number of orders in draw_calls, the sum of the index counts of the
\* orders drawn in the colour pass in drawn_indices, whatever the shadow
\* passes drew, and drawn_indices divided by 3, rounded down, in
\* drawn_triangles.
C40_RenderStatsAccounting ==
    (Rendered /\ ret.ok) =>
        /\ ret.shaders_used = Len(arg.target.orders_by_shader)
        /\ ret.materials_used = MaterialBuckets(arg.target)
        /\ ret.draw_calls = Len(OrdersOf(arg.target))
        /\ ret.drawn_indices = IndicesOf(OrdersOf(arg.target))
        /\ ret.drawn_triangles = ret.drawn_indices \div 3
        /\ ret.drawn_triangles * 3 <= ret.drawn_indices
        /\ ret.drawn_indices < (ret.drawn_triangles + 1) * 3

\* a successful draw of a cube and a surface whose shadow passes drew too
C40_Witness ==
    /\ Rendered
    /\ ret.ok
    /\ ShadowDraws > 0
    /\ ret.draw_calls = 2
    /\ ret.drawn_indices = 42
    /\ ret.drawn_triangles = 14

====
